---- MODULE Spec2Model ----
(***************************************************************************)
(* The RAG pipeline of chat-with-knowledge-base: the LlamaIndex RAG        *)
(* manager (ingestion, retrieval, generation, deletion) working on two     *)
(* stores, the Qdrant collection and the Prisma Document table, the        *)
(* DELETE /api/documents/[id] route that drives the deletion, and the      *)
(* RAGManager built on VectorStoreManager, EmbeddingManager and            *)
(* DocumentProcessor, which works on the Qdrant collection alone; the      *)
(* FileUploadManager with its background processing; the chat routes       *)
(* POST /api/chat and POST /api/chat/[threadId]; the upload route POST     *)
(* /api/documents/upload; VectorStoreManager.initialize and its            *)
(* deleteDocumentsByFilename; and LLMGateway.streamChatCompletion.         *)
(*                                                                         *)
(* Every await of a store or provider call is one step of a process; the   *)
(* steps of different requests interleave freely.  Every store or provider *)
(* call may fail (throw).                                                  *)
(***************************************************************************)
EXTENDS Integers, Sequences, FiniteSets, TLC

(* ------------------------------- bounds -------------------------------- *)
NumProcs == 2
MaxCalls == 2
MaxFiles == 2
MaxLoaded == 2
MaxChunks == 2
MaxReads == 2
MaxTokens == 2

(* ------------------------- program constants --------------------------- *)
similarityTopK == 5
maxResults == 5
VectorSize == 1536
scrollLimit == 1000
collectionName == "knowledge_base"

Procs == 1..NumProcs
Threads == {"T1", "T2"}
Files == {"a.txt", "b.txt"}
Users == {"u1", "u2"}
Revisions == {"head", "part_023", "legacy", "uploads"}

\* a payload key that is not set
NoKey == "-"

\* thread.userId of the Thread row a Document is foreign-keyed to
ThreadOwner == [t \in Threads |-> IF t = "T1" THEN "u1" ELSE "u2"]

VARIABLES
  rev,       \* which RAG manager @/modules/rag resolves to
  vectors,   \* the points of the Qdrant collection
  docs,      \* the rows of the Prisma Document table
  chunkRows, \* the rows of the Prisma DocumentChunk table
  messages,  \* the rows of the Prisma Message table, in order of creation
  collections, \* the names of the collections of the Qdrant server
  nextId,    \* number of ids handed out by createId() so far
  calls,     \* number of calls started so far
  pc,        \* per request: the await it is at
  loc,       \* per request: the local variables of the call
  res,       \* per request: the value the RAG manager call returned
  resp,      \* per request: the HTTP answer of the route
  settled    \* (filename, threadId) keys deleted with success and not ingested since

vars ==
  <<rev, vectors, docs, chunkRows, messages, collections, nextId, calls, pc,
    loc, res, resp, settled>>

(* ------------------------------ helpers -------------------------------- *)
Min(a, b) == IF a < b THEN a ELSE b

Range(s) == {s[i] : i \in 1..Len(s)}

FileSeqs == UNION {[1..m -> Files] : m \in 1..MaxFiles}

\* how often onComplete and onError of a streaming call were invoked, and
\* whether an onChunk came after one of them
NoCallbacks == [completes |-> 0, errors |-> 0, late |-> FALSE]

NoLoc ==
  [op |-> "none", threadId |-> "-", fileName |-> "-", files |-> <<>>,
   n |-> 0, ids |-> <<>>, k |-> 0, vecDone |-> FALSE, failedAt |-> "none",
   found |-> 0, vecFailed |-> FALSE, dbTried |-> FALSE, after |-> FALSE,
   injected |-> FALSE, user |-> "-", docId |-> 0, via |-> FALSE,
   owned |-> FALSE, points |-> {}, key |-> NoKey, content |-> "-",
   onProgress |-> FALSE, emb |-> <<>>, ch |-> <<>>, message |-> "-",
   ragThrew |-> FALSE, asked |-> <<>>, final |-> "-", grounded |-> FALSE,
   size |-> 0, mime |-> "-", tempDir |-> "none", impl |-> "-",
   buffer |-> <<>>, reads |-> 0,
   cb |-> NoCallbacks]

NoRes ==
  [returned |-> FALSE, thrown |-> FALSE, success |-> FALSE,
   documentsIndexed |-> 0, chunksCreated |-> 0, deletedCount |-> 0,
   msg |-> "none", nodes |-> {}]

NoResp == [status |-> 0, success |-> FALSE]

\* the IndexingResult of the catch block and of the empty-load return
IndexFailure(m) ==
  [NoRes EXCEPT !.returned = TRUE, !.success = FALSE,
                !.documentsIndexed = 0, !.chunksCreated = 0, !.msg = m]

IndexSuccess(nFiles, nDocuments) ==
  [NoRes EXCEPT !.returned = TRUE, !.success = TRUE,
                !.documentsIndexed = nFiles, !.chunksCreated = nDocuments,
                !.msg = "indexed"]

\* (mutant) createId() hands out the same ids to every call
FreshIds_Reused(first, m) == [i \in 1..m |-> 2 + i]

\* updatedFileMetadata: one fresh createId() per fileMetadata entry
FreshIds(first, m) == [i \in 1..m |-> first + i]

\* the points VectorStoreIndex.fromDocuments writes: documents[i] carries
\* threadId, doc_id and fileName of updatedFileMetadata[i]; ch[i] nodes each
NewVectors(t, files, ids, n, ch) ==
  UNION {{[docId |-> ids[i], chunk |-> c, threadId |-> t, fileName |-> files[i]]
            : c \in 1..ch[i]} : i \in 1..n}

\* (mutant) a failed vector write is swallowed and the create loop still runs
FromDocumentsNext_Swallowed(ok) == "i_create"

\* next await after VectorStoreIndex.fromDocuments: the create loop, or the
\* catch block when embedding or the upsert threw
FromDocumentsNext(ok) == IF ok THEN "i_create" ELSE "done"

\* the row prisma.document.create writes
NewDocument(id, t, name) ==
  [id |-> id, threadId |-> t, filename |-> name, status |-> "READY"]

\* Qdrant filter {must: [fileName == f, threadId == t]}
VectorFilter(vs, f, t) == {v \in vs : v.fileName = f /\ v.threadId = t}

\* Prisma where {filename: f, threadId: t}
DocumentWhere(ds, f, t) == {d \in ds : d.filename = f /\ d.threadId = t}

\* preFilters {threadId == t} of the query engine
PreFilter(vs, t) == {v \in vs : v.threadId = t}

\* what a similarityTopK retrieval may return from the filtered points
TopK(S) ==
  {R \in SUBSET S : Cardinality(R) = Min(similarityTopK, Cardinality(S))}

(* ------------------------------- Init ---------------------------------- *)
\* Knowledge bases left by earlier successful uploads: each upload wrote the
\* points of its file and then its READY row (ids 1 and 2 are taken).
Seeds ==
  { {}, {<<1, "T1", "a.txt">>}, {<<1, "T1", "a.txt">>, <<2, "T2", "a.txt">>} }

Stores ==
  /\ \E seed \in Seeds :
       /\ vectors = {[docId |-> s[1], chunk |-> 1, threadId |-> s[2],
                      fileName |-> s[3]] : s \in seed}
       /\ docs = {NewDocument(s[1], s[2], s[3]) : s \in seed}
  /\ chunkRows = {}
  /\ messages = <<>>
  /\ collections = {collectionName}
  /\ nextId = 2
  /\ calls = 0
  /\ pc = [p \in Procs |-> "idle"]
  /\ loc = [p \in Procs |-> NoLoc]
  /\ res = [p \in Procs |-> NoRes]
  /\ resp = [p \in Procs |-> NoResp]
  /\ settled = {}

\* src/modules/rag/llamaindex-rag.ts is deployed
Init == rev = "head" /\ Stores

\* the other revision of the same module (part_023) is deployed
InitPart023 == rev = "part_023" /\ Stores

\* a request slot is free: no call is in flight in it and the route that
\* made the last call has answered
CanStart(p) ==
  /\ pc[p] \in {"idle", "done"} /\ calls < MaxCalls
  /\ ~(loc[p].op = "uploadRoute" /\ resp[p] = NoResp /\ pc[p] = "done")

(* -------------------- indexDocumentsFromDirectory ---------------------- *)
StartIndex(p) ==
  /\ CanStart(p)
  /\ \E t \in Threads, fs \in FileSeqs :
       loc' = [loc EXCEPT ![p] =
                 [NoLoc EXCEPT !.op = "index", !.threadId = t, !.files = fs]]
  /\ pc' = [pc EXCEPT ![p] = "i_load"]
  /\ res' = [res EXCEPT ![p] = NoRes]
  /\ resp' = [resp EXCEPT ![p] = NoResp]
  /\ calls' = calls + 1
  /\ UNCHANGED <<rev, collections, messages, chunkRows, vectors, docs, nextId, settled>>

\* SimpleDirectoryReader.loadData, then the ids and the metadata tagging
IndexLoad(p) ==
  /\ pc[p] = "i_load"
  /\ \/ \* loadData throws
        /\ loc' = [loc EXCEPT ![p].failedAt = "load", ![p].injected = TRUE]
        /\ res' = [res EXCEPT ![p] = IndexFailure("error")]
        /\ pc' = [pc EXCEPT ![p] = "done"]
        /\ UNCHANGED nextId
     \/ \* documents.length === 0
        /\ loc' = [loc EXCEPT ![p].failedAt = "empty"]
        /\ res' = [res EXCEPT ![p] = IndexFailure("no_documents")]
        /\ pc' = [pc EXCEPT ![p] = "done"]
        /\ UNCHANGED nextId
     \/ \E n \in 1..MaxLoaded :
          LET m == Len(loc[p].files) IN
          /\ nextId' = nextId + m
          /\ IF n > m
             THEN \* updatedFileMetadata[index] is undefined: TypeError
                  /\ loc' = [loc EXCEPT ![p].n = n,
                                        ![p].ids = FreshIds(nextId, m),
                                        ![p].failedAt = "mismatch"]
                  /\ res' = [res EXCEPT ![p] = IndexFailure("error")]
                  /\ pc' = [pc EXCEPT ![p] = "done"]
             ELSE /\ loc' = [loc EXCEPT ![p].n = n,
                                        ![p].ids = FreshIds(nextId, m)]
                  /\ pc' = [pc EXCEPT ![p] = "i_vec"]
                  /\ UNCHANGED res
  /\ UNCHANGED <<rev, collections, messages, chunkRows, vectors, docs, calls, resp, settled>>

\* VectorStoreIndex.fromDocuments: embeds the nodes and upserts them
IndexFromDocuments(p) ==
  /\ pc[p] = "i_vec"
  /\ \E ok \in BOOLEAN :
       /\ pc' = [pc EXCEPT ![p] = FromDocumentsNext(ok)]
       /\ IF ok
          THEN \E ch \in [1..loc[p].n -> 1..MaxChunks] :
                 LET keys == {<<loc[p].files[i], loc[p].threadId>>
                                : i \in 1..loc[p].n} IN
                 /\ vectors' = vectors \cup
                      NewVectors(loc[p].threadId, loc[p].files, loc[p].ids,
                                 loc[p].n, ch)
                 /\ settled' = settled \ keys
                 /\ loc' = [q \in Procs |->
                      IF q = p THEN [loc[p] EXCEPT !.vecDone = TRUE]
                      ELSE IF /\ loc[q].op \in {"delete", "routeDelete"}
                              /\ <<loc[q].fileName, loc[q].threadId>> \in keys
                           THEN [loc[q] EXCEPT !.after = FALSE]
                           ELSE loc[q]]
          ELSE /\ loc' = [loc EXCEPT ![p].failedAt = "vector",
                                     ![p].injected = TRUE]
               /\ UNCHANGED <<vectors, settled>>
       /\ res' = IF FromDocumentsNext(ok) = "done"
                 THEN [res EXCEPT ![p] = IndexFailure("error")]
                 ELSE res
  /\ UNCHANGED <<rev, collections, messages, chunkRows, docs, nextId, calls, resp>>

\* one prisma.document.create of the loop over updatedFileMetadata
IndexCreate(p) ==
  /\ pc[p] = "i_create"
  /\ LET i == loc[p].k + 1
         key == <<loc[p].files[i], loc[p].threadId>> IN
     \/ \* create throws
        /\ loc' = [loc EXCEPT ![p].failedAt = "create", ![p].injected = TRUE]
        /\ res' = [res EXCEPT ![p] = IndexFailure("error")]
        /\ pc' = [pc EXCEPT ![p] = "done"]
        /\ UNCHANGED <<docs, settled>>
     \/ /\ docs' = docs \cup
             {NewDocument(loc[p].ids[i], loc[p].threadId, loc[p].files[i])}
        /\ settled' = settled \ {key}
        /\ loc' = [q \in Procs |->
             IF q = p THEN [loc[p] EXCEPT !.k = i]
             ELSE IF /\ loc[q].op \in {"delete", "routeDelete"}
                     /\ <<loc[q].fileName, loc[q].threadId>> = key
                  THEN [loc[q] EXCEPT !.after = FALSE]
                  ELSE loc[q]]
        /\ IF i = Len(loc[p].files)
           THEN /\ res' = [res EXCEPT ![p] =
                             IndexSuccess(Len(loc[p].files), loc[p].n)]
                /\ pc' = [pc EXCEPT ![p] = "done"]
           ELSE UNCHANGED <<res, pc>>
  /\ UNCHANGED <<rev, collections, messages, chunkRows, vectors, nextId, calls, resp>>


(* ---------------------- deleteDocumentsByFilename ---------------------- *)
\* the three values deleteDocumentsByFilename returns
DeleteNoneFound ==
  [NoRes EXCEPT !.returned = TRUE, !.success = TRUE, !.deletedCount = 0,
                !.msg = "none_found"]

DeleteDone(count) ==
  [NoRes EXCEPT !.returned = TRUE, !.success = TRUE, !.deletedCount = count,
                !.msg = "deleted_from_both"]

DeleteFailure ==
  [NoRes EXCEPT !.returned = TRUE, !.success = FALSE, !.deletedCount = 0,
                !.msg = "failed"]

\* where a request continues when deleteDocumentsByFilename returns: the
\* route goes on to DocumentStorage.delete, a direct caller is finished
ReturnTo(l) == IF l.via THEN "r_delete" ELSE "done"

\* (mutant) a throwing client.delete ends the call instead of being swallowed
AfterVectorDelete_Abort(r, failed) ==
  IF failed THEN "return" ELSE IF r = "head" THEN "d_db" ELSE "return"

\* what follows the try/catch around client.delete, whether it threw or not:
\* head goes on to prisma.document.deleteMany, part_023 returns
AfterVectorDelete(r, failed) == IF r = "head" THEN "d_db" ELSE "return"

\* deletedCount of part_023: the rows findMany saw
FoundCount(rows) == Cardinality(rows)

StartDelete(p) ==
  /\ CanStart(p)
  /\ \E t \in Threads, f \in Files :
       loc' = [loc EXCEPT ![p] =
                 [NoLoc EXCEPT !.op = "delete", !.threadId = t, !.fileName = f,
                               !.after = (<<f, t>> \in settled)]]
  /\ pc' = [pc EXCEPT ![p] = "d_find"]
  /\ res' = [res EXCEPT ![p] = NoRes]
  /\ resp' = [resp EXCEPT ![p] = NoResp]
  /\ calls' = calls + 1
  /\ UNCHANGED <<rev, collections, messages, chunkRows, vectors, docs, nextId, settled>>

\* prisma.document.findMany and the early return
DeleteFind(p) ==
  /\ pc[p] = "d_find"
  /\ LET key == <<loc[p].fileName, loc[p].threadId>>
         rows == DocumentWhere(docs, loc[p].fileName, loc[p].threadId) IN
     \/ \* findMany throws
        /\ loc' = [loc EXCEPT ![p].failedAt = "find", ![p].injected = TRUE]
        /\ res' = [res EXCEPT ![p] = DeleteFailure]
        /\ pc' = [pc EXCEPT ![p] = ReturnTo(loc[p])]
        /\ UNCHANGED settled
     \/ /\ rows = {}
        /\ res' = [res EXCEPT ![p] = DeleteNoneFound]
        /\ pc' = [pc EXCEPT ![p] = ReturnTo(loc[p])]
        /\ settled' = settled \cup {key}
        /\ UNCHANGED loc
     \/ /\ rows # {}
        /\ loc' = [loc EXCEPT ![p].found = FoundCount(rows)]
        /\ pc' = [pc EXCEPT ![p] = "d_vec"]
        /\ UNCHANGED <<res, settled>>
  /\ UNCHANGED <<rev, collections, messages, chunkRows, vectors, docs, nextId, calls, resp>>

\* client.delete with the metadata filter, inside its own try/catch
DeleteVectors(p) ==
  /\ pc[p] = "d_vec"
  /\ \E ok \in BOOLEAN :
       LET key == <<loc[p].fileName, loc[p].threadId>>
           nxt == AfterVectorDelete(rev, ~ok) IN
       /\ IF ok
          THEN vectors' = vectors \
                 VectorFilter(vectors, loc[p].fileName, loc[p].threadId)
          ELSE UNCHANGED vectors
       /\ loc' = [loc EXCEPT ![p].vecFailed = ~ok,
                             ![p].injected = loc[p].injected \/ ~ok]
       /\ IF nxt = "return"
          THEN /\ res' = [res EXCEPT ![p] = DeleteDone(loc[p].found)]
               /\ pc' = [pc EXCEPT ![p] = ReturnTo(loc[p])]
               /\ settled' = settled \cup {key}
          ELSE /\ pc' = [pc EXCEPT ![p] = nxt]
               /\ UNCHANGED <<res, settled>>
  /\ UNCHANGED <<rev, collections, messages, chunkRows, docs, nextId, calls, resp>>

\* prisma.document.deleteMany
DeleteRows(p) ==
  /\ pc[p] = "d_db"
  /\ LET key == <<loc[p].fileName, loc[p].threadId>>
         rows == DocumentWhere(docs, loc[p].fileName, loc[p].threadId) IN
     \/ \* deleteMany throws
        /\ loc' = [loc EXCEPT ![p].failedAt = "deleteMany",
                              ![p].dbTried = TRUE, ![p].injected = TRUE]
        /\ res' = [res EXCEPT ![p] = DeleteFailure]
        /\ UNCHANGED <<docs, settled>>
     \/ /\ docs' = docs \ rows
        /\ loc' = [loc EXCEPT ![p].dbTried = TRUE]
        /\ res' = [res EXCEPT ![p] = DeleteDone(Cardinality(rows))]
        /\ settled' = settled \cup {key}
  /\ pc' = [pc EXCEPT ![p] = ReturnTo(loc[p])]
  /\ UNCHANGED <<rev, collections, messages, chunkRows, vectors, nextId, calls, resp>>

(* -------------------- DELETE /api/documents/[id] ----------------------- *)
NoSuchId == 0

StartRouteDelete(p) ==
  /\ CanStart(p)
  /\ \E u \in Users, id \in {d.id : d \in docs} \cup {NoSuchId} :
       loc' = [loc EXCEPT ![p] =
                 [NoLoc EXCEPT !.op = "routeDelete", !.user = u, !.docId = id,
                               !.via = TRUE]]
  /\ pc' = [pc EXCEPT ![p] = "r_find"]
  /\ res' = [res EXCEPT ![p] = NoRes]
  /\ resp' = [resp EXCEPT ![p] = NoResp]
  /\ calls' = calls + 1
  /\ UNCHANGED <<rev, collections, messages, chunkRows, vectors, docs, nextId, settled>>

\* DocumentStorage.findById and the 404 / 403 answers
RouteFind(p) ==
  /\ pc[p] = "r_find"
  /\ LET found == {d \in docs : d.id = loc[p].docId} IN
     \/ \* findById throws
        /\ loc' = [loc EXCEPT ![p].failedAt = "findById", ![p].injected = TRUE]
        /\ resp' = [resp EXCEPT ![p] = [status |-> 500, success |-> FALSE]]
        /\ pc' = [pc EXCEPT ![p] = "done"]
     \/ /\ found = {}
        /\ resp' = [resp EXCEPT ![p] = [status |-> 404, success |-> FALSE]]
        /\ pc' = [pc EXCEPT ![p] = "done"]
        /\ UNCHANGED loc
     \/ \E d \in found :
          IF ThreadOwner[d.threadId] # loc[p].user
          THEN /\ resp' = [resp EXCEPT ![p] = [status |-> 403, success |-> FALSE]]
               /\ pc' = [pc EXCEPT ![p] = "done"]
               /\ UNCHANGED loc
          ELSE /\ loc' = [loc EXCEPT ![p].fileName = d.filename,
                                     ![p].threadId = d.threadId,
                                     ![p].owned = TRUE,
                                     ![p].after =
                                       (<<d.filename, d.threadId>> \in settled)]
               /\ pc' = [pc EXCEPT ![p] = "d_find"]
               /\ UNCHANGED resp
  /\ UNCHANGED <<rev, collections, messages, chunkRows, vectors, docs, nextId, calls, res, settled>>

\* DocumentStorage.delete: prisma.document.delete throws when no row has the id
RouteDeleteRow(p) ==
  /\ pc[p] = "r_delete"
  /\ LET row == {d \in docs : d.id = loc[p].docId} IN
     \/ \* delete throws: the store failed
        /\ loc' = [loc EXCEPT ![p].failedAt = "delete", ![p].injected = TRUE]
        /\ resp' = [resp EXCEPT ![p] = [status |-> 500, success |-> FALSE]]
        /\ UNCHANGED docs
     \/ \* delete throws: record to delete does not exist
        /\ row = {}
        /\ loc' = [loc EXCEPT ![p].failedAt = "notFound"]
        /\ resp' = [resp EXCEPT ![p] = [status |-> 500, success |-> FALSE]]
        /\ UNCHANGED docs
     \/ /\ row # {}
        /\ docs' = docs \ row
        /\ resp' = [resp EXCEPT ![p] = [status |-> 200, success |-> TRUE]]
        /\ UNCHANGED loc
  /\ pc' = [pc EXCEPT ![p] = "done"]
  /\ UNCHANGED <<rev, collections, messages, chunkRows, vectors, nextId, calls, res, settled>>

(* ----------------- retrieveContext and generateResponse ---------------- *)
Retrieved(nodes) ==
  [NoRes EXCEPT !.returned = TRUE, !.success = TRUE, !.msg = "context",
                !.nodes = nodes]

Generated(nodes) ==
  [NoRes EXCEPT !.returned = TRUE, !.success = TRUE, !.msg = "response",
                !.nodes = nodes]

\* throw new Error(`Context retrieval failed: ...`) / `RAG generation failed: ...`
Thrown(m) == [NoRes EXCEPT !.thrown = TRUE, !.msg = m]

\* sources: one {fileName, similarity} per source node
Sources(nodes) == {n.fileName : n \in nodes}

StartRetrieve(p) ==
  /\ CanStart(p)
  /\ \E t \in Threads :
       loc' = [loc EXCEPT ![p] =
                 [NoLoc EXCEPT !.op = "retrieve", !.threadId = t]]
  /\ pc' = [pc EXCEPT ![p] = "q_query"]
  /\ res' = [res EXCEPT ![p] = NoRes]
  /\ resp' = [resp EXCEPT ![p] = NoResp]
  /\ calls' = calls + 1
  /\ UNCHANGED <<rev, collections, messages, chunkRows, vectors, docs, nextId, settled>>

\* queryEngine.query of retrieveContext: filtered retrieval, then synthesis
RetrieveQuery(p) ==
  /\ pc[p] = "q_query"
  /\ \/ \E cause \in {"retrieval", "llm"} :
          /\ loc' = [loc EXCEPT ![p].failedAt = cause, ![p].injected = TRUE]
          /\ res' = [res EXCEPT ![p] = Thrown("context_retrieval_failed")]
     \/ \E R \in TopK(PreFilter(vectors, loc[p].threadId)) :
          /\ res' = [res EXCEPT ![p] = Retrieved(R)]
          /\ UNCHANGED loc
  /\ pc' = [pc EXCEPT ![p] = "done"]
  /\ UNCHANGED <<rev, collections, messages, chunkRows, vectors, docs, nextId, calls, resp, settled>>

StartGenerate(p) ==
  /\ CanStart(p)
  /\ \E t \in Threads :
       loc' = [loc EXCEPT ![p] =
                 [NoLoc EXCEPT !.op = "generate", !.threadId = t]]
  /\ pc' = [pc EXCEPT ![p] = IF rev = "head" THEN "g_query" ELSE "g_retrieve"]
  /\ res' = [res EXCEPT ![p] = NoRes]
  /\ resp' = [resp EXCEPT ![p] = NoResp]
  /\ calls' = calls + 1
  /\ UNCHANGED <<rev, collections, messages, chunkRows, vectors, docs, nextId, settled>>

\* head: queryEngine.query retrieves under the filter and calls the LLM
GenerateQuery(p) ==
  /\ pc[p] = "g_query"
  /\ \/ \E cause \in {"retrieval", "llm"} :
          /\ loc' = [loc EXCEPT ![p].failedAt = cause, ![p].injected = TRUE]
          /\ res' = [res EXCEPT ![p] = Thrown("rag_generation_failed")]
     \/ \E R \in TopK(PreFilter(vectors, loc[p].threadId)) :
          /\ res' = [res EXCEPT ![p] = Generated(R)]
          /\ UNCHANGED loc
  /\ pc' = [pc EXCEPT ![p] = "done"]
  /\ UNCHANGED <<rev, collections, messages, chunkRows, vectors, docs, nextId, calls, resp, settled>>

\* part_023: retriever.retrieve under the filter
GenerateRetrieve(p) ==
  /\ pc[p] = "g_retrieve"
  /\ \/ /\ loc' = [loc EXCEPT ![p].failedAt = "retrieval", ![p].injected = TRUE]
        /\ res' = [res EXCEPT ![p] = Thrown("rag_generation_failed")]
        /\ pc' = [pc EXCEPT ![p] = "done"]
     \/ \E R \in TopK(PreFilter(vectors, loc[p].threadId)) :
          /\ res' = [res EXCEPT ![p].nodes = R]
          /\ pc' = [pc EXCEPT ![p] = "g_llm"]
          /\ UNCHANGED loc
  /\ UNCHANGED <<rev, collections, messages, chunkRows, vectors, docs, nextId, calls, resp, settled>>

\* part_023: llmGateway.chatCompletion with the retrieved context
GenerateLLM(p) ==
  /\ pc[p] = "g_llm"
  /\ \/ /\ loc' = [loc EXCEPT ![p].failedAt = "llm", ![p].injected = TRUE]
        /\ res' = [res EXCEPT ![p] = Thrown("rag_generation_failed")]
     \/ /\ res' = [res EXCEPT ![p] = Generated(res[p].nodes)]
        /\ UNCHANGED loc
  /\ pc' = [pc EXCEPT ![p] = "done"]
  /\ UNCHANGED <<rev, collections, messages, chunkRows, vectors, docs, nextId, calls, resp, settled>>

(* ------- RAGManager on VectorStoreManager (storage/index.ts) ----------- *)
\* an embedding as far as the code looks at it: its length and whether every
\* value is 0; len -1 stands for undefined
OkEmbedding == [len |-> VectorSize, zero |-> FALSE]
ZeroEmbedding == [len |-> VectorSize, zero |-> TRUE]
ShortEmbedding == [len |-> VectorSize - 1, zero |-> FALSE]
EmptyEmbedding == [len |-> 0, zero |-> TRUE]
NoEmbedding == [len |-> -1, zero |-> FALSE]

\* what the embeddings endpoint may answer for n texts: good vectors, or
\* good vectors and a degenerate one for the last text
ProviderResponses(n, bad) ==
  {[i \in 1..n |-> OkEmbedding]} \cup
  {[i \in 1..n |-> IF i = n THEN b ELSE OkEmbedding] : b \in bad}

\* response.data[0]?.embedding and the !embedding test of generateEmbedding
EmbeddingRejected(e) == e.len < 0

\* the EmbeddingResult {text, embedding} of generateEmbedding(text)
EmbeddingOf(text, a) == [text |-> text, len |-> a.len, zero |-> a.zero]

\* documents handed over with the embeddings that were made from them
Embedded(texts, ans) ==
  [i \in 1..Len(texts) |-> EmbeddingOf(texts[i], ans[i])]

\* what the endpoint may answer with the embedding missing for one text
MissingAt(n) ==
  {[i \in 1..n |-> IF i = j THEN NoEmbedding ELSE OkEmbedding] : j \in 1..n}

\* (mutant) an item whose embedding is missing is left out, the loop goes on
AfterItem_Skip(results, text, a) ==
  [thrown |-> FALSE,
   results |-> IF EmbeddingRejected(a) THEN results
               ELSE Append(results, EmbeddingOf(text, a))]

\* one round of the for loop of generateBatchEmbeddings: generateEmbedding
\* throws, or its result is pushed
AfterItem(results, text, a) ==
  IF EmbeddingRejected(a) THEN [thrown |-> TRUE, results |-> <<>>]
  ELSE [thrown |-> FALSE, results |-> Append(results, EmbeddingOf(text, a))]

RECURSIVE BatchLoop(_, _, _)
BatchLoop(texts, ans, results) ==
  IF texts = <<>> THEN [thrown |-> FALSE, results |-> results]
  ELSE LET r == AfterItem(results, Head(texts), Head(ans)) IN
       IF r.thrown THEN r ELSE BatchLoop(Tail(texts), Tail(ans), r.results)

\* generateBatchEmbeddings(texts) when the endpoint answers ans
generateBatchEmbeddings(texts, ans) ==
  IF texts = <<>> THEN [thrown |-> TRUE, results |-> <<>>]
  ELSE BatchLoop(texts, ans, <<>>)

\* vector: doc.embedding || []
Vector(e) == IF e.len < 0 THEN EmptyEmbedding ELSE e

\* (mutant) the validation only looks at the first point
InvalidPoints_FirstOnly(emb) ==
  {i \in {1} : Vector(emb[i]).len = 0 \/ Vector(emb[i]).len # VectorSize}

\* invalidPoints of storeVectors: no vector, length 0 or length other than
\* 1536 (the point ids are fresh UUID strings)
InvalidPoints(emb) ==
  {i \in 1..Len(emb) :
     Vector(emb[i]).len = 0 \/ Vector(emb[i]).len # VectorSize}

\* the chunks createChunks makes of one file, in order
ChunksOf(f, n) == [c \in 1..n |-> [fileName |-> f, chunk |-> c]]

\* allChunks: the chunks of the files that produced any, in file order
RECURSIVE AllChunks(_, _)
AllChunks(files, ch) ==
  IF files = <<>> THEN <<>>
  ELSE ChunksOf(Head(files), Head(ch)) \o AllChunks(Tail(files), Tail(ch))

\* documentsIndexed: the processing results with at least one chunk
DocumentsIndexed(ch) == Cardinality({i \in 1..Len(ch) : ch[i] > 0})

\* chunk metadata of DocumentProcessor.createChunks as VectorStoreManager
\* stores it: fileName and userId, no threadId; key is what the reader's
\* doc.metadata, spread into the chunk metadata, put under "filename".
\* origin records the threadId the upload request named.
LegacyPoints(first, all, emb, u, key, t) ==
  {[docId |-> first + i, chunk |-> all[i].chunk, threadId |-> NoKey,
    fileName |-> all[i].fileName,
    filename |-> IF key = NoKey THEN NoKey ELSE all[i].fileName,
    userId |-> u, origin |-> t, embedding |-> Vector(emb[i])]
     : i \in 1..Len(all)}

\* one page of client.scroll: the first scrollLimit points in id order
ScrollPage(found) ==
  IF Cardinality(found) <= scrollLimit THEN found
  ELSE LET ids == {v.docId : v \in found}
           cut == CHOOSE c \in ids :
                    Cardinality({i \in ids : i <= c}) = scrollLimit
       IN {v \in found : v.docId <= cut}

\* scroll with filter {must: [filename == f]} and limit 1000
ScrollFilter(vs, f) == ScrollPage({v \in vs : v.filename = f})

\* searchSimilar(embedding, 5, 0.7) without a filter: at most maxResults of
\* the points that score above the threshold, from the whole collection
SearchSimilar(vs) == {R \in SUBSET vs : Cardinality(R) <= maxResults}

\* the points a request made on behalf of thread t may be answered from
Retrievable(vs, t) ==
  IF rev = "legacy" THEN SearchSimilar(vs) ELSE TopK(PreFilter(vs, t))

\* the points that were ingested by an upload into thread t
IngestedInto(vs, t) ==
  IF rev = "legacy" THEN {v \in vs : v.origin = t} ELSE PreFilter(vs, t)

LegacySeeds ==
  { {}, {<<1, "T1", "a.txt">>}, {<<1, "T1", "a.txt">>, <<2, "T2", "a.txt">>} }

\* @/modules/rag resolves to RAGManager: no Document table is involved
InitLegacy ==
  /\ rev = "legacy"
  /\ \E seed \in LegacySeeds, key \in {NoKey, "set"} :
       vectors = UNION {LegacyPoints(s[1] - 1, ChunksOf(s[3], 1),
                                     Embedded(ChunksOf(s[3], 1),
                                              <<OkEmbedding>>),
                                     ThreadOwner[s[2]], key, s[2])
                          : s \in seed}
  /\ docs = {}
  /\ chunkRows = {}
  /\ messages = <<>>
  /\ collections = {collectionName}
  /\ nextId = 2
  /\ calls = 0
  /\ pc = [p \in Procs |-> "idle"]
  /\ loc = [p \in Procs |-> NoLoc]
  /\ res = [p \in Procs |-> NoRes]
  /\ resp = [p \in Procs |-> NoResp]
  /\ settled = {}

\* the points of one indexed file of n chunks, ids from first + 1
IndexedFile(first, f, n) ==
  LegacyPoints(first, ChunksOf(f, n),
               Embedded(ChunksOf(f, n), [i \in 1..n |-> OkEmbedding]), "u1",
               "set", "T1")

\* a collection in which a.txt has none, one, 1000 or 1001 chunks
InitLegacyDelete ==
  /\ rev = "legacy"
  /\ \E n \in {0, 1, scrollLimit, scrollLimit + 1}, m \in {0, 1} :
       vectors = IndexedFile(0, "a.txt", n) \cup
                 IndexedFile(scrollLimit + 1, "b.txt", m)
  /\ docs = {}
  /\ chunkRows = {}
  /\ messages = <<>>
  /\ collections = {collectionName}
  /\ nextId = scrollLimit + 2
  /\ calls = 0
  /\ pc = [p \in Procs |-> "idle"]
  /\ loc = [p \in Procs |-> NoLoc]
  /\ res = [p \in Procs |-> NoRes]
  /\ resp = [p \in Procs |-> NoResp]
  /\ settled = {}

\* a Qdrant server that has the collection, another one, both or none
InitInitialize ==
  /\ rev = "legacy"
  /\ collections \in SUBSET {collectionName, "other"}
  /\ vectors = {}
  /\ docs = {}
  /\ chunkRows = {}
  /\ messages = <<>>
  /\ nextId = 2
  /\ calls = 0
  /\ pc = [p \in Procs |-> "idle"]
  /\ loc = [p \in Procs |-> NoLoc]
  /\ res = [p \in Procs |-> NoRes]
  /\ resp = [p \in Procs |-> NoResp]
  /\ settled = {}

\* createVectorStore(config): a new VectorStoreManager and its initialize()
StartInitialize(p) ==
  /\ CanStart(p)
  /\ \E name \in {collectionName, "other"} :
       loc' = [loc EXCEPT ![p] =
                 [NoLoc EXCEPT !.op = "initialize", !.key = name]]
  /\ pc' = [pc EXCEPT ![p] = "vi_get"]
  /\ res' = [res EXCEPT ![p] = NoRes]
  /\ resp' = [resp EXCEPT ![p] = NoResp]
  /\ calls' = calls + 1
  /\ UNCHANGED <<rev, collections, messages, chunkRows, vectors, docs, nextId,
                 settled>>

\* initialize() has returned
Initialized ==
  [NoRes EXCEPT !.returned = TRUE, !.success = TRUE, !.msg = "initialized"]

\* client.getCollections() and the collectionExists test
InitializeGet(p) ==
  /\ pc[p] = "vi_get"
  /\ \/ /\ loc' = [loc EXCEPT ![p].failedAt = "getCollections",
                              ![p].injected = TRUE]
        /\ res' = [res EXCEPT ![p] =
                     Thrown("vector_store_initialization_failed")]
        /\ pc' = [pc EXCEPT ![p] = "done"]
     \/ /\ loc[p].key \in collections
        /\ res' = [res EXCEPT ![p] = Initialized]
        /\ pc' = [pc EXCEPT ![p] = "done"]
        /\ UNCHANGED loc
     \/ /\ loc[p].key \notin collections
        /\ pc' = [pc EXCEPT ![p] = "vi_create"]
        /\ UNCHANGED <<loc, res>>
  /\ UNCHANGED <<rev, collections, messages, chunkRows, vectors, docs, nextId,
                 calls, resp, settled>>

\* client.createCollection(name, ...): the server refuses a name it has
InitializeCreate(p) ==
  /\ pc[p] = "vi_create"
  /\ \/ /\ loc' = [loc EXCEPT ![p].failedAt = "createCollection",
                              ![p].injected = TRUE]
        /\ res' = [res EXCEPT ![p] =
                     Thrown("vector_store_initialization_failed")]
        /\ UNCHANGED collections
     \/ /\ loc[p].key \in collections
        /\ loc' = [loc EXCEPT ![p].failedAt = "exists"]
        /\ res' = [res EXCEPT ![p] =
                     Thrown("vector_store_initialization_failed")]
        /\ UNCHANGED collections
     \/ /\ loc[p].key \notin collections
        /\ collections' = collections \cup {loc[p].key}
        /\ loc' = [loc EXCEPT ![p].vecDone = TRUE]
        /\ res' = [res EXCEPT ![p] = Initialized]
  /\ pc' = [pc EXCEPT ![p] = "done"]
  /\ UNCHANGED <<rev, messages, chunkRows, vectors, docs, nextId, calls, resp,
                 settled>>

\* POST of the index route: indexDocuments(files, session.user.id)
StartLegacyIndex(p) ==
  /\ CanStart(p)
  /\ \E t \in Threads, fs \in FileSeqs :
       loc' = [loc EXCEPT ![p] =
                 [NoLoc EXCEPT !.op = "index", !.threadId = t, !.files = fs,
                               !.user = ThreadOwner[t]]]
  /\ pc' = [pc EXCEPT ![p] = "l_process"]
  /\ res' = [res EXCEPT ![p] = NoRes]
  /\ resp' = [resp EXCEPT ![p] = NoResp]
  /\ calls' = calls + 1
  /\ UNCHANGED <<rev, collections, messages, chunkRows, vectors, docs, nextId, settled>>

\* documentProcessor.processFiles and the allChunks.length === 0 return; a
\* file that fails to process comes back with no chunks
LegacyProcess(p) ==
  /\ pc[p] = "l_process"
  /\ \E ch \in [1..Len(loc[p].files) -> 0..MaxChunks] :
       LET all == AllChunks(loc[p].files, ch) IN
       IF all = <<>>
       THEN /\ loc' = [loc EXCEPT ![p].failedAt = "empty", ![p].files = <<>>]
            /\ res' = [res EXCEPT ![p] = IndexFailure("no_chunks")]
            /\ pc' = [pc EXCEPT ![p] = "done"]
       ELSE /\ loc' = [loc EXCEPT ![p].ch = ch, ![p].n = Len(all)]
            /\ pc' = [pc EXCEPT ![p] = "l_embed"]
            /\ UNCHANGED res
  /\ UNCHANGED <<rev, collections, messages, chunkRows, vectors, docs, nextId, calls, resp, settled>>

\* embeddingManager.generateBatchEmbeddings: one generateEmbedding per text,
\* results in the order of the texts; then the pairing of allChunks[index]
\* with results[index].embedding
LegacyEmbed(p) ==
  /\ pc[p] = "l_embed"
  /\ \/ \* the embeddings endpoint throws
        /\ loc' = [loc EXCEPT ![p].failedAt = "embed", ![p].injected = TRUE,
                              ![p].files = <<>>, ![p].ch = <<>>]
        /\ res' = [res EXCEPT ![p] = IndexFailure("error")]
        /\ pc' = [pc EXCEPT ![p] = "done"]
     \/ \E ans \in ProviderResponses(loc[p].n,
                     {ZeroEmbedding, ShortEmbedding, NoEmbedding})
                   \cup MissingAt(loc[p].n) :
          LET batch == generateBatchEmbeddings(
                         AllChunks(loc[p].files, loc[p].ch), ans) IN
          IF batch.thrown
          THEN /\ loc' = [loc EXCEPT ![p].failedAt = "rejected",
                                     ![p].files = <<>>, ![p].ch = <<>>]
               /\ res' = [res EXCEPT ![p] = IndexFailure("error")]
               /\ pc' = [pc EXCEPT ![p] = "done"]
          ELSE IF Len(batch.results) < loc[p].n
          THEN \* embeddingResult.results[index] is undefined: TypeError
               /\ loc' = [loc EXCEPT ![p].failedAt = "pairing",
                                     ![p].files = <<>>, ![p].ch = <<>>]
               /\ res' = [res EXCEPT ![p] = IndexFailure("error")]
               /\ pc' = [pc EXCEPT ![p] = "done"]
          ELSE /\ loc' = [loc EXCEPT ![p].emb = batch.results]
               /\ pc' = [pc EXCEPT ![p] = "l_store"]
               /\ UNCHANGED res
  /\ UNCHANGED <<rev, collections, messages, chunkRows, vectors, docs, nextId, calls, resp, settled>>

\* a call of VectorStoreManager.storeVectors(documents) on its own
StartStoreVectors(p) ==
  /\ CanStart(p)
  /\ \E f \in Files, n \in 1..MaxChunks :
       \E emb \in ProviderResponses(n, {ShortEmbedding, EmptyEmbedding,
                                        NoEmbedding}) :
         loc' = [loc EXCEPT ![p] =
                   [NoLoc EXCEPT !.op = "store", !.threadId = "T1",
                                 !.user = "u1", !.files = <<f>>,
                                 !.ch = <<n>>, !.n = n,
                                 !.emb = Embedded(ChunksOf(f, n), emb)]]
  /\ pc' = [pc EXCEPT ![p] = "l_store"]
  /\ res' = [res EXCEPT ![p] = NoRes]
  /\ resp' = [resp EXCEPT ![p] = NoResp]
  /\ calls' = calls + 1
  /\ UNCHANGED <<rev, collections, messages, chunkRows, vectors, docs, nextId, settled>>

\* what a failing storeVectors leaves its caller with: indexDocuments turns
\* the Error into its failure result, a direct caller gets the Error
StoreFailed(o) ==
  IF o = "index" THEN IndexFailure("error") ELSE Thrown("vector_storage_failed")

\* vectorStore.storeVectors: the validation of every point, then one upsert
\* of all points, each under a fresh UUID
LegacyStore(p) ==
  /\ pc[p] = "l_store"
  /\ LET all == AllChunks(loc[p].files, loc[p].ch)
         gone == [loc[p] EXCEPT !.emb = <<>>, !.ch = <<>>, !.files = <<>>] IN
     \/ \* the upsert throws
        /\ loc' = [loc EXCEPT ![p] =
                     [gone EXCEPT !.failedAt = "vector", !.injected = TRUE]]
        /\ res' = [res EXCEPT ![p] = StoreFailed(loc[p].op)]
        /\ UNCHANGED <<vectors, nextId>>
     \/ /\ InvalidPoints(loc[p].emb) # {}
        /\ loc' = [loc EXCEPT ![p] = [gone EXCEPT !.failedAt = "invalid"]]
        /\ res' = [res EXCEPT ![p] = StoreFailed(loc[p].op)]
        /\ UNCHANGED <<vectors, nextId>>
     \/ /\ InvalidPoints(loc[p].emb) = {}
        /\ \E key \in {NoKey, "set"} :
             vectors' = vectors \cup
               LegacyPoints(nextId, all, loc[p].emb, loc[p].user, key,
                            loc[p].threadId)
        /\ nextId' = nextId + Len(all)
        /\ loc' = [loc EXCEPT ![p] =
                     [gone EXCEPT !.vecDone = TRUE]]
        /\ res' = [res EXCEPT ![p] =
                     IF loc[p].op = "index"
                     THEN IndexSuccess(DocumentsIndexed(loc[p].ch), Len(all))
                     ELSE [NoRes EXCEPT !.returned = TRUE, !.success = TRUE,
                                        !.msg = "stored"]]
  /\ pc' = [pc EXCEPT ![p] = "done"]
  /\ UNCHANGED <<rev, collections, messages, chunkRows, docs, calls, resp, settled>>

\* the values RAGManager.deleteDocumentsByFilename returns
LegacyDeleted(count) ==
  [NoRes EXCEPT !.returned = TRUE, !.success = TRUE, !.deletedCount = count,
                !.msg = "deleted_chunks"]

\* DELETE of the index route: deleteDocumentsByFilename(filename), sent from
\* the page of thread t
StartLegacyDelete(p) ==
  /\ CanStart(p)
  /\ \E t \in Threads, f \in Files :
       loc' = [loc EXCEPT ![p] =
                 [NoLoc EXCEPT !.op = "delete", !.threadId = t, !.fileName = f]]
  /\ pc' = [pc EXCEPT ![p] = "ld_scroll"]
  /\ res' = [res EXCEPT ![p] = NoRes]
  /\ resp' = [resp EXCEPT ![p] = NoResp]
  /\ calls' = calls + 1
  /\ UNCHANGED <<rev, collections, messages, chunkRows, vectors, docs, nextId, settled>>

\* client.scroll with the filename filter, and the return of 0 on no points
LegacyScroll(p) ==
  /\ pc[p] = "ld_scroll"
  /\ LET found == ScrollFilter(vectors, loc[p].fileName) IN
     \/ /\ loc' = [loc EXCEPT ![p].failedAt = "scroll", ![p].injected = TRUE]
        /\ res' = [res EXCEPT ![p] = DeleteFailure]
        /\ pc' = [pc EXCEPT ![p] = "done"]
     \/ /\ found = {}
        /\ res' = [res EXCEPT ![p] = LegacyDeleted(0)]
        /\ pc' = [pc EXCEPT ![p] = "done"]
        /\ UNCHANGED loc
     \/ /\ found # {}
        /\ loc' = [loc EXCEPT ![p].points = {v.docId : v \in found},
                              ![p].found = Cardinality(found)]
        /\ pc' = [pc EXCEPT ![p] = "ld_delete"]
        /\ UNCHANGED res
  /\ UNCHANGED <<rev, collections, messages, chunkRows, vectors, docs, nextId, calls, resp, settled>>

\* client.delete of the point ids the scroll returned
LegacyDeletePoints(p) ==
  /\ pc[p] = "ld_delete"
  /\ \/ /\ loc' = [loc EXCEPT ![p].failedAt = "delete", ![p].vecFailed = TRUE,
                              ![p].injected = TRUE]
        /\ res' = [res EXCEPT ![p] = DeleteFailure]
        /\ UNCHANGED vectors
     \/ /\ vectors' = {v \in vectors : v.docId \notin loc[p].points}
        /\ res' = [res EXCEPT ![p] =
                     LegacyDeleted(Cardinality(loc[p].points))]
        /\ UNCHANGED loc
  /\ pc' = [pc EXCEPT ![p] = "done"]
  /\ UNCHANGED <<rev, collections, messages, chunkRows, docs, nextId, calls, resp, settled>>

\* retrieveContext(query) or generateResponse(query), for a question asked
\* in thread t
StartLegacyQuery(p) ==
  /\ CanStart(p)
  /\ \E t \in Threads, o \in {"retrieve", "generate"} :
       loc' = [loc EXCEPT ![p] = [NoLoc EXCEPT !.op = o, !.threadId = t]]
  /\ pc' = [pc EXCEPT ![p] = "lq_embed"]
  /\ res' = [res EXCEPT ![p] = NoRes]
  /\ resp' = [resp EXCEPT ![p] = NoResp]
  /\ calls' = calls + 1
  /\ UNCHANGED <<rev, collections, messages, chunkRows, vectors, docs, nextId, settled>>

\* the Error retrieveContext throws, as its caller passes it on
LegacyThrown(o) ==
  Thrown(IF o = "retrieve" THEN "context_retrieval_failed"
         ELSE "rag_generation_failed")

\* embeddingManager.generateEmbedding(query)
LegacyQueryEmbed(p) ==
  /\ pc[p] = "lq_embed"
  /\ \/ /\ loc' = [loc EXCEPT ![p].failedAt = "embed", ![p].injected = TRUE]
        /\ res' = [res EXCEPT ![p] = LegacyThrown(loc[p].op)]
        /\ pc' = [pc EXCEPT ![p] = "done"]
     \/ /\ pc' = [pc EXCEPT ![p] = "lq_search"]
        /\ UNCHANGED <<loc, res>>
  /\ UNCHANGED <<rev, collections, messages, chunkRows, vectors, docs, nextId, calls, resp, settled>>

\* vectorStore.searchSimilar and the building of contextText and sources
LegacySearch(p) ==
  /\ pc[p] = "lq_search"
  /\ \/ /\ loc' = [loc EXCEPT ![p].failedAt = "retrieval", ![p].injected = TRUE]
        /\ res' = [res EXCEPT ![p] = LegacyThrown(loc[p].op)]
        /\ pc' = [pc EXCEPT ![p] = "done"]
     \/ \E R \in SearchSimilar(vectors) :
          /\ IF loc[p].op = "retrieve"
             THEN /\ res' = [res EXCEPT ![p] = Retrieved(R)]
                  /\ pc' = [pc EXCEPT ![p] = "done"]
             ELSE /\ res' = [res EXCEPT ![p].nodes = R]
                  /\ pc' = [pc EXCEPT ![p] = "lq_llm"]
          /\ UNCHANGED loc
  /\ UNCHANGED <<rev, collections, messages, chunkRows, vectors, docs, nextId, calls, resp, settled>>

\* chatService.processMessage with the context in the system prompt
LegacyLLM(p) ==
  /\ pc[p] = "lq_llm"
  /\ \/ /\ loc' = [loc EXCEPT ![p].failedAt = "llm", ![p].injected = TRUE]
        /\ res' = [res EXCEPT ![p] = Thrown("rag_generation_failed")]
     \/ /\ res' = [res EXCEPT ![p] = Generated(res[p].nodes)]
        /\ UNCHANGED loc
  /\ pc' = [pc EXCEPT ![p] = "done"]
  /\ UNCHANGED <<rev, collections, messages, chunkRows, vectors, docs, nextId, calls, resp, settled>>

(* ------------- FileUploadManager (uploads module, part_024) ------------ *)
Statuses == {"PROCESSING", "READY", "ERROR"}

\* what extractTextContent finds in the file: text with sentences, text of
\* punctuation and white space only, the empty string, or nothing readable
Contents == {"text", "blank", "empty", "unreadable"}

\* the row DocumentStorage.create writes for an upload
UploadRow(id, u, f, st) ==
  [id |-> id, threadId |-> NoKey, filename |-> f, status |-> st, userId |-> u]

\* prisma.document.update({where: {id}, data: {status}})
SetStatus(ds, id, st) ==
  {IF d.id = id THEN [d EXCEPT !.status = st] ELSE d : d \in ds}

HasRow(ds, id) == \E d \in ds : d.id = id

\* number of chunks splitIntoChunks returns: sentences are the non-blank
\* pieces between runs of . ! ?, so blank content gives no chunk
SplitCounts(c) == IF c = "text" THEN 1..MaxChunks ELSE {0}

\* the rows DocumentChunkStorage.createMany writes
ChunkData(id, n) == {[documentId |-> id, chunkIndex |-> i] : i \in 0..(n - 1)}

UploadFailed ==
  [NoRes EXCEPT !.returned = TRUE, !.success = FALSE, !.msg = "upload_failed"]

UploadInvalid ==
  [NoRes EXCEPT !.returned = TRUE, !.success = FALSE, !.msg = "invalid_file"]

UploadOk ==
  [NoRes EXCEPT !.returned = TRUE, !.success = TRUE, !.msg = "uploaded"]

\* the catch block of uploadFile: onProgress is called again, and when it
\* throws there the exception leaves uploadFile
UploadCatch(l) ==
  IF l.onProgress THEN {UploadFailed, Thrown("callback")} ELSE {UploadFailed}

UploadSeeds == { {}, {UploadRow(1, "u1", "a.txt", "READY")} }

InitUpload ==
  /\ rev = "uploads"
  /\ vectors = {}
  /\ docs \in UploadSeeds
  /\ chunkRows = {[documentId |-> d.id, chunkIndex |-> 0] : d \in docs}
  /\ messages = <<>>
  /\ collections = {collectionName}
  /\ nextId = 2
  /\ calls = 0
  /\ pc = [p \in Procs |-> "idle"]
  /\ loc = [p \in Procs |-> NoLoc]
  /\ res = [p \in Procs |-> NoRes]
  /\ resp = [p \in Procs |-> NoResp]
  /\ settled = {}

\* uploadFile(file, userId, onProgress) up to validateFile
StartUpload(p) ==
  /\ CanStart(p)
  /\ \E u \in Users, f \in Files, c \in Contents, cb \in BOOLEAN,
        valid \in BOOLEAN :
       /\ loc' = [loc EXCEPT ![p] =
                    [NoLoc EXCEPT !.op = "upload", !.user = u, !.fileName = f,
                                  !.content = c, !.onProgress = cb,
                                  !.failedAt =
                                    IF valid THEN "none" ELSE "invalid"]]
       /\ pc' = [pc EXCEPT ![p] = IF valid THEN "u_write" ELSE "done"]
       /\ res' = [res EXCEPT ![p] = IF valid THEN NoRes ELSE UploadInvalid]
  /\ resp' = [resp EXCEPT ![p] = NoResp]
  /\ calls' = calls + 1
  /\ UNCHANGED <<rev, collections, messages, chunkRows, vectors, docs, nextId, settled>>

\* initializeUploadDir, writeFile, and the two progress reports around them
UploadWrite(p) ==
  /\ pc[p] = "u_write"
  /\ \/ \E r \in UploadCatch(loc[p]) :
          /\ loc' = [loc EXCEPT ![p].failedAt = "write", ![p].injected = TRUE]
          /\ res' = [res EXCEPT ![p] = r]
          /\ pc' = [pc EXCEPT ![p] = "done"]
     \/ /\ pc' = [pc EXCEPT ![p] = "u_create"]
        /\ UNCHANGED <<loc, res>>
  /\ UNCHANGED <<rev, collections, messages, chunkRows, vectors, docs, nextId, calls, resp, settled>>

\* DocumentStorage.create with status PROCESSING; processFileInBackground is
\* started without being awaited and uploadFile returns
UploadCreate(p) ==
  /\ pc[p] = "u_create"
  /\ \/ \E r \in UploadCatch(loc[p]) :
          /\ loc' = [loc EXCEPT ![p].failedAt = "create", ![p].injected = TRUE]
          /\ res' = [res EXCEPT ![p] = r]
          /\ pc' = [pc EXCEPT ![p] = "done"]
          /\ UNCHANGED <<docs, nextId>>
     \/ /\ docs' = docs \cup
             {UploadRow(nextId + 1, loc[p].user, loc[p].fileName, "PROCESSING")}
        /\ nextId' = nextId + 1
        /\ loc' = [loc EXCEPT ![p].docId = nextId + 1]
        /\ res' = [res EXCEPT ![p] = UploadOk]
        /\ pc' = [pc EXCEPT ![p] = "b_extract"]
  /\ UNCHANGED <<rev, collections, messages, chunkRows, vectors, calls, resp, settled>>

\* extractTextContent (null on any error), the !content test, splitIntoChunks
BackgroundExtract(p) ==
  /\ pc[p] = "b_extract"
  /\ \/ \* null, or the empty string
        /\ loc' = [loc EXCEPT ![p].failedAt = "extract",
                              ![p].injected = (loc[p].content
                                                 \in {"text", "blank"})]
        /\ pc' = [pc EXCEPT ![p] = "b_nocontent"]
     \/ /\ loc[p].content \in {"text", "blank"}
        /\ \E n \in SplitCounts(loc[p].content) :
             loc' = [loc EXCEPT ![p].n = n, ![p].vecDone = TRUE]
        /\ pc' = [pc EXCEPT ![p] = "b_chunks"]
  /\ UNCHANGED <<rev, collections, messages, chunkRows, vectors, docs, nextId, calls, res, resp, settled>>

\* where processFileInBackground goes after an updateStatus and the progress
\* report that follows it: on, or into the catch block
AfterStatus(threw) == IF threw THEN "b_catch" ELSE "done"

\* updateStatus(documentId, "ERROR") of the !content branch
BackgroundNoContent(p) ==
  /\ pc[p] = "b_nocontent"
  /\ \/ \* update throws: store failure, or no row with the id
        /\ pc' = [pc EXCEPT ![p] = AfterStatus(TRUE)]
        /\ loc' = [loc EXCEPT ![p].injected = TRUE]
        /\ UNCHANGED docs
     \/ /\ HasRow(docs, loc[p].docId)
        /\ docs' = SetStatus(docs, loc[p].docId, "ERROR")
        /\ \E threw \in {FALSE, loc[p].onProgress} :
             /\ pc' = [pc EXCEPT ![p] = AfterStatus(threw)]
             /\ loc' = [loc EXCEPT ![p].injected = loc[p].injected \/ threw]
  /\ UNCHANGED <<rev, collections, messages, chunkRows, vectors, nextId, calls, res, resp, settled>>

\* DocumentChunkStorage.createMany(chunkData)
BackgroundChunks(p) ==
  /\ pc[p] = "b_chunks"
  /\ \/ /\ pc' = [pc EXCEPT ![p] = "b_catch"]
        /\ loc' = [loc EXCEPT ![p].failedAt = "createMany",
                              ![p].injected = TRUE]
        /\ UNCHANGED chunkRows
     \/ /\ loc[p].n = 0 \/ HasRow(docs, loc[p].docId)
        /\ chunkRows' = chunkRows \cup ChunkData(loc[p].docId, loc[p].n)
        /\ loc' = [loc EXCEPT ![p].k = loc[p].n]
        /\ pc' = [pc EXCEPT ![p] = "b_ready"]
  /\ UNCHANGED <<rev, collections, messages, vectors, docs, nextId, calls, res, resp, settled>>

\* updateStatus(documentId, "READY") and the report of completion
BackgroundReady(p) ==
  /\ pc[p] = "b_ready"
  /\ \/ /\ pc' = [pc EXCEPT ![p] = AfterStatus(TRUE)]
        /\ loc' = [loc EXCEPT ![p].failedAt = "update", ![p].injected = TRUE]
        /\ UNCHANGED docs
     \/ /\ HasRow(docs, loc[p].docId)
        /\ docs' = SetStatus(docs, loc[p].docId, "READY")
        /\ \E threw \in {FALSE, loc[p].onProgress} :
             /\ pc' = [pc EXCEPT ![p] = AfterStatus(threw)]
             /\ loc' = [loc EXCEPT ![p].dbTried = TRUE,
                                   ![p].failedAt =
                                     IF threw THEN "callback" ELSE "none"]
  /\ UNCHANGED <<rev, collections, messages, chunkRows, vectors, nextId, calls, res, resp, settled>>

\* the catch block: updateStatus(documentId, "ERROR"); an exception here is
\* an unhandled rejection of the background promise
BackgroundCatch(p) ==
  /\ pc[p] = "b_catch"
  /\ \/ /\ loc' = [loc EXCEPT ![p].failedAt = "unhandled", ![p].injected = TRUE]
        /\ UNCHANGED docs
     \/ /\ HasRow(docs, loc[p].docId)
        /\ docs' = SetStatus(docs, loc[p].docId, "ERROR")
        /\ \E threw \in {FALSE, loc[p].onProgress} :
             loc' = [loc EXCEPT ![p].failedAt =
                                  IF threw THEN "unhandled" ELSE @]
  /\ pc' = [pc EXCEPT ![p] = "done"]
  /\ UNCHANGED <<rev, collections, messages, chunkRows, vectors, nextId, calls, res, resp, settled>>

\* FileUploadManager.deleteDocument(documentId, userId)
StartUploadDelete(p) ==
  /\ CanStart(p)
  /\ \E u \in Users, id \in {d.id : d \in docs} \cup {NoSuchId} :
       loc' = [loc EXCEPT ![p] =
                 [NoLoc EXCEPT !.op = "uploadDelete", !.user = u, !.docId = id]]
  /\ pc' = [pc EXCEPT ![p] = "ud_find"]
  /\ res' = [res EXCEPT ![p] = NoRes]
  /\ resp' = [resp EXCEPT ![p] = NoResp]
  /\ calls' = calls + 1
  /\ UNCHANGED <<rev, collections, messages, chunkRows, vectors, docs, nextId, settled>>

\* DocumentStorage.findById, the not-found and access-denied returns, unlink
UploadDeleteFind(p) ==
  /\ pc[p] = "ud_find"
  /\ \/ /\ loc' = [loc EXCEPT ![p].failedAt = "findById", ![p].injected = TRUE]
        /\ res' = [res EXCEPT ![p] = DeleteFailure]
        /\ pc' = [pc EXCEPT ![p] = "done"]
     \/ /\ \A d \in docs : d.id = loc[p].docId => d.userId # loc[p].user
        /\ res' = [res EXCEPT ![p] = DeleteFailure]
        /\ pc' = [pc EXCEPT ![p] = "done"]
        /\ UNCHANGED loc
     \/ /\ \E d \in docs : d.id = loc[p].docId /\ d.userId = loc[p].user
        /\ loc' = [loc EXCEPT ![p].owned = TRUE]
        /\ pc' = [pc EXCEPT ![p] = "ud_row"]
        /\ UNCHANGED res
  /\ UNCHANGED <<rev, collections, messages, chunkRows, vectors, docs, nextId, calls, resp, settled>>

\* DocumentStorage.delete; the chunk rows of the document go with it when
\* the relation cascades
UploadDeleteRow(p) ==
  /\ pc[p] = "ud_row"
  /\ \/ /\ loc' = [loc EXCEPT ![p].failedAt = "delete", ![p].injected = TRUE]
        /\ res' = [res EXCEPT ![p] = DeleteFailure]
        /\ UNCHANGED <<docs, chunkRows>>
     \/ /\ HasRow(docs, loc[p].docId)
        /\ docs' = {d \in docs : d.id # loc[p].docId}
        /\ chunkRows' \in
             {chunkRows, {c \in chunkRows : c.documentId # loc[p].docId}}
        /\ res' = [res EXCEPT ![p] = DeleteDone(1)]
        /\ UNCHANGED loc
  /\ pc' = [pc EXCEPT ![p] = "done"]
  /\ UNCHANGED <<rev, collections, messages, vectors, nextId, calls, resp, settled>>

(* ------------- chat routes (app/api/chat, part_008) -------------------- *)
\* what the provider returns as choices[0].message.content; "" when it has none
LLMContents == {"answer", " answer ", ""}

\* the message field of the request body (z.string().min(1))
UserTexts == {"question", " question"}

\* error.message of the error the provider SDK throws; it may be empty
ProviderErrors == {"provider_error", ""}

\* String.prototype.trim on the texts above
Trim(c) ==
  IF c = " answer " THEN "answer"
  ELSE IF c = " question" THEN "question" ELSE c

\* ragResponse after the catch block
Null == "null"

\* (mutant) the RAG branch is taken whatever ragResponse holds
Truthy_Any(s) == TRUE

\* if (ragResponse), x || y: JavaScript truthiness of a string or null
Truthy(s) == s # Null /\ s # ""

OrElse(e, d) == IF Truthy(e) THEN e ELSE d

Apology ==
  "I'm sorry, I couldn't process your question at the moment. Please try again later."

\* the texts the routes write themselves
GenericTexts ==
  {"Failed to process message", "Internal server error", Apology}

\* ApiUtils.createErrorResponse(error, status)
ErrorResponse(e, st) ==
  [status |-> st, success |-> FALSE, content |-> Null, error |-> e,
   messageId |-> 0]

\* ApiUtils.createResponse({success: true, data: {content, messageId}})
OkResponse(c, id) ==
  [status |-> 200, success |-> TRUE, content |-> c, error |-> "",
   messageId |-> id]

MessageRow(t, c, role) == [threadId |-> t, content |-> Trim(c), role |-> role]

\* MessageManager.addMessage: the Message table and the ApiResponse it can
\* leave behind (data is the position of the created row, 0 when there is none)
AddMessage(t, c, role, u) ==
  LET added == Append(messages, MessageRow(t, c, role))
      failure(e) == [success |-> FALSE, error |-> e, data |-> 0] IN
  {<<messages, failure("Failed to add message")>>} \cup
  (IF t \notin Threads
   THEN {<<messages, failure("Thread not found")>>}
   ELSE IF ThreadOwner[t] # u
   THEN {<<messages, failure("Access denied")>>}
   ELSE {<<added, [success |-> TRUE, error |-> "", data |-> Len(added)]>>}
        \cup
        \* the title update after the first USER message throws
        (IF role = "USER"
         THEN {<<added, failure("Failed to add message")>>} ELSE {}))

\* the messages argument of the fallback call, as
\* prepareMessagesWithContext(messages, []) passes it on
FallbackMessages(m) == <<[role |-> "user", content |-> m]>>

StartChat(p) ==
  /\ CanStart(p)
  /\ \E u \in Users, t \in Threads \cup {NoKey}, m \in UserTexts :
       loc' = [loc EXCEPT ![p] =
                 [NoLoc EXCEPT !.op = "chat", !.user = u, !.threadId = t,
                               !.message = m]]
  /\ pc' = [pc EXCEPT ![p] = "c_user"]
  /\ res' = [res EXCEPT ![p] = NoRes]
  /\ resp' = [resp EXCEPT ![p] = NoResp]
  /\ calls' = calls + 1
  /\ UNCHANGED <<rev, collections, messages, chunkRows, vectors, docs, nextId, settled>>

\* MessageManager.addMessage(threadId, message, USER, userId)
ChatAddUser(p) ==
  /\ pc[p] = "c_user"
  /\ \E o \in AddMessage(loc[p].threadId, loc[p].message, "USER",
                         loc[p].user) :
       /\ messages' = o[1]
       /\ IF o[2].success
          THEN /\ pc' = [pc EXCEPT ![p] = "c_rag"]
               /\ UNCHANGED resp
          ELSE /\ pc' = [pc EXCEPT ![p] = "done"]
               /\ resp' = [resp EXCEPT ![p] =
                    ErrorResponse(OrElse(o[2].error,
                                         "Failed to save user message"), 400)]
  /\ UNCHANGED <<rev, collections, chunkRows, vectors, docs, nextId, calls, loc, res,
                 settled>>

\* ragManager.generateResponse(message, threadId) inside the inner try, and
\* the choice between the RAG answer and the fallback
ChatRag(p) ==
  /\ pc[p] = "c_rag"
  /\ \/ \E cause \in {"retrieval", "llm"} :
          /\ res' = [res EXCEPT ![p] = Thrown("rag_generation_failed")]
          /\ loc' = [loc EXCEPT ![p].failedAt = cause, ![p].injected = TRUE,
                                ![p].ragThrew = TRUE, ![p].final = Null,
                                ![p].grounded = Truthy(Null)]
          /\ pc' = [pc EXCEPT ![p] =
                      IF Truthy(Null) THEN "c_save" ELSE "c_fallback"]
     \/ \E R \in TopK(PreFilter(vectors, loc[p].threadId)),
           c \in LLMContents :
          /\ res' = [res EXCEPT ![p] = Generated(R)]
          /\ loc' = [loc EXCEPT ![p].final = c, ![p].grounded = Truthy(c)]
          /\ pc' = [pc EXCEPT ![p] =
                      IF Truthy(c) THEN "c_save" ELSE "c_fallback"]
  /\ UNCHANGED <<rev, collections, messages, chunkRows, vectors, docs, nextId, calls, resp,
                 settled>>

\* chatService.processMessage([{role: "user", content: message}], [], ...)
ChatFallback(p) ==
  /\ pc[p] = "c_fallback"
  /\ \/ \E c \in LLMContents :
          /\ loc' = [loc EXCEPT ![p].asked = FallbackMessages(loc[p].message),
                                ![p].final = c]
          /\ pc' = [pc EXCEPT ![p] = "c_save"]
          /\ UNCHANGED resp
     \/ \E e \in ProviderErrors :
          /\ loc' = [loc EXCEPT ![p].asked = FallbackMessages(loc[p].message),
                                ![p].failedAt = "fallback",
                                ![p].injected = TRUE]
          /\ resp' = [resp EXCEPT ![p] =
               ErrorResponse(OrElse(e, "Failed to process message"), 500)]
          /\ pc' = [pc EXCEPT ![p] = "done"]
  /\ UNCHANGED <<rev, collections, messages, chunkRows, vectors, docs, nextId, calls, res,
                 settled>>

\* MessageManager.addMessage(threadId, finalResponse, ASSISTANT, userId) and
\* the 200 response; a failure to save is only logged
ChatSave(p) ==
  /\ pc[p] = "c_save"
  /\ \E o \in AddMessage(loc[p].threadId, loc[p].final, "ASSISTANT",
                         loc[p].user) :
       /\ messages' = o[1]
       /\ resp' = [resp EXCEPT ![p] = OkResponse(loc[p].final, o[2].data)]
  /\ pc' = [pc EXCEPT ![p] = "done"]
  /\ UNCHANGED <<rev, collections, chunkRows, vectors, docs, nextId, calls, loc, res,
                 settled>>

\* POST /api/chat/[threadId]
StartThreadChat(p) ==
  /\ CanStart(p)
  /\ \E u \in Users, t \in Threads \cup {NoKey}, m \in UserTexts :
       loc' = [loc EXCEPT ![p] =
                 [NoLoc EXCEPT !.op = "threadChat", !.user = u,
                               !.threadId = t, !.message = m]]
  /\ pc' = [pc EXCEPT ![p] = "tc_find"]
  /\ res' = [res EXCEPT ![p] = NoRes]
  /\ resp' = [resp EXCEPT ![p] = NoResp]
  /\ calls' = calls + 1
  /\ UNCHANGED <<rev, collections, messages, chunkRows, vectors, docs, nextId, settled>>

\* prisma.thread.findUnique({where: {id: threadId}})
ThreadChatFind(p) ==
  /\ pc[p] = "tc_find"
  /\ \/ /\ loc' = [loc EXCEPT ![p].failedAt = "findUnique",
                              ![p].injected = TRUE]
        /\ resp' = [resp EXCEPT ![p] =
                      ErrorResponse("Internal server error", 500)]
        /\ pc' = [pc EXCEPT ![p] = "done"]
     \/ /\ loc[p].threadId \notin Threads
        /\ resp' = [resp EXCEPT ![p] = ErrorResponse("Thread not found", 404)]
        /\ pc' = [pc EXCEPT ![p] = "done"]
        /\ UNCHANGED loc
     \/ /\ loc[p].threadId \in Threads
        /\ pc' = [pc EXCEPT ![p] = "tc_rag"]
        /\ UNCHANGED <<loc, resp>>
  /\ UNCHANGED <<rev, collections, messages, chunkRows, vectors, docs, nextId, calls, res,
                 settled>>

\* ragManager.generateResponse(message, threadId) and the response
ThreadChatRag(p) ==
  /\ pc[p] = "tc_rag"
  /\ \/ \E cause \in {"retrieval", "llm"} :
          /\ res' = [res EXCEPT ![p] = Thrown("rag_generation_failed")]
          /\ loc' = [loc EXCEPT ![p].failedAt = cause, ![p].injected = TRUE,
                                ![p].ragThrew = TRUE]
          /\ resp' = [resp EXCEPT ![p] = ErrorResponse(Apology, 500)]
     \/ \E R \in TopK(PreFilter(vectors, loc[p].threadId)),
           c \in LLMContents :
          /\ res' = [res EXCEPT ![p] = Generated(R)]
          /\ IF Truthy(c)
             THEN /\ loc' = [loc EXCEPT ![p].final = c, ![p].grounded = TRUE]
                  /\ resp' = [resp EXCEPT ![p] = OkResponse(c, 0)]
             ELSE \* throw new Error("No response generated")
                  /\ loc' = [loc EXCEPT ![p].failedAt = "noResponse"]
                  /\ resp' = [resp EXCEPT ![p] = ErrorResponse(Apology, 500)]
  /\ pc' = [pc EXCEPT ![p] = "done"]
  /\ UNCHANGED <<rev, collections, messages, chunkRows, vectors, docs, nextId, calls,
                 settled>>

(* ------------- POST /api/documents/upload (upload/route.ts) ------------ *)
\* const maxSize = 10 * 1024 * 1024
maxSize == 10 * 1024 * 1024

allowedTypes ==
  {"application/pdf",
   "application/vnd.openxmlformats-officedocument.wordprocessingml.document",
   "application/msword", "text/plain", "text/markdown", "text/csv",
   "application/vnd.ms-excel",
   "application/vnd.openxmlformats-officedocument.spreadsheetml.sheet"}

\* file.size and file.type of the uploaded file; size -1 with no type stands
\* for a form without a file
FileSizes == {0, 1, maxSize, maxSize + 1}

UploadedFiles ==
  {[size |-> -1, mime |-> "-"], [size |-> 1, mime |-> "image/png"]} \cup
  {[size |-> sz, mime |-> "text/plain"] : sz \in FileSizes}

\* the request reads formData: file and threadId may be missing
StartUploadRoute(p) ==
  /\ CanStart(p)
  /\ \E u \in Users, t \in Threads \cup {NoKey}, f \in Files,
        file \in UploadedFiles :
       loc' = [loc EXCEPT ![p] =
                 [NoLoc EXCEPT !.op = "uploadRoute", !.user = u,
                               !.threadId = t, !.files = <<f>>,
                               !.size = file.size, !.mime = file.mime]]
  /\ pc' = [pc EXCEPT ![p] = "ur_thread"]
  /\ res' = [res EXCEPT ![p] = NoRes]
  /\ resp' = [resp EXCEPT ![p] = NoResp]
  /\ calls' = calls + 1
  /\ UNCHANGED <<rev, collections, messages, chunkRows, vectors, docs, nextId, settled>>

\* the threadId check, ThreadStorage.findById with the ownership check, and
\* the type and size checks that follow it without an await
UploadRouteThread(p) ==
  /\ pc[p] = "ur_thread"
  /\ IF loc[p].size < 0
     THEN /\ resp' = [resp EXCEPT ![p] =
                        ErrorResponse("No file provided", 400)]
          /\ pc' = [pc EXCEPT ![p] = "done"]
          /\ UNCHANGED loc
     ELSE IF loc[p].threadId = NoKey
     THEN /\ resp' = [resp EXCEPT ![p] =
                        ErrorResponse("Thread ID is required", 400)]
          /\ pc' = [pc EXCEPT ![p] = "done"]
          /\ UNCHANGED loc
     ELSE \/ \* findById throws: the outer catch
             /\ loc' = [loc EXCEPT ![p].failedAt = "findById",
                                   ![p].injected = TRUE]
             /\ resp' = [resp EXCEPT ![p] =
                           ErrorResponse("Internal server error", 500)]
             /\ pc' = [pc EXCEPT ![p] = "done"]
          \/ /\ UNCHANGED loc
             /\ IF ThreadOwner[loc[p].threadId] # loc[p].user
                THEN /\ resp' = [resp EXCEPT ![p] =
                           ErrorResponse("Thread not found or access denied",
                                         403)]
                     /\ pc' = [pc EXCEPT ![p] = "done"]
                ELSE IF loc[p].mime \notin allowedTypes
                THEN /\ resp' = [resp EXCEPT ![p] =
                           ErrorResponse("Unsupported file type", 400)]
                     /\ pc' = [pc EXCEPT ![p] = "done"]
                ELSE IF loc[p].size > maxSize
                THEN /\ resp' = [resp EXCEPT ![p] =
                           ErrorResponse("File too large. Maximum size is 10MB",
                                         400)]
                     /\ pc' = [pc EXCEPT ![p] = "done"]
                ELSE /\ pc' = [pc EXCEPT ![p] = "ur_mkdir"]
                     /\ UNCHANGED resp
  /\ UNCHANGED <<rev, collections, messages, chunkRows, vectors, docs, nextId, calls, res,
                 settled>>

\* mkdir(tempDirectoryPath, {recursive: true})
UploadRouteMkdir(p) ==
  /\ pc[p] = "ur_mkdir"
  /\ \/ /\ loc' = [loc EXCEPT ![p].failedAt = "mkdir", ![p].injected = TRUE]
        /\ resp' = [resp EXCEPT ![p] =
                      ErrorResponse("Internal server error", 500)]
        /\ pc' = [pc EXCEPT ![p] = "done"]
     \/ /\ loc' = [loc EXCEPT ![p].tempDir = "made"]
        /\ pc' = [pc EXCEPT ![p] = "ur_write"]
        /\ UNCHANGED resp
  /\ UNCHANGED <<rev, collections, messages, chunkRows, vectors, docs, nextId, calls, res,
                 settled>>

\* writeFile(tempFilePath, buffer); on a throw the outer catch empties and
\* removes the directory, or fails to and only warns
UploadRouteWrite(p) ==
  /\ pc[p] = "ur_write"
  /\ \/ \E left \in {"removed", "made"} :
          /\ loc' = [loc EXCEPT ![p].failedAt = "writeFile",
                                ![p].injected = TRUE, ![p].tempDir = left]
          /\ resp' = [resp EXCEPT ![p] =
                        ErrorResponse("Internal server error", 500)]
          /\ pc' = [pc EXCEPT ![p] = "done"]
     \/ \* on to ragManager.indexDocumentsFromDirectory(dir, threadId, [file])
        /\ pc' = [pc EXCEPT ![p] = "i_load"]
        /\ UNCHANGED <<loc, resp>>
  /\ UNCHANGED <<rev, collections, messages, chunkRows, vectors, docs, nextId, calls, res,
                 settled>>

\* the route has got the IndexingResult and has not answered yet
Pending(p) ==
  loc[p].op = "uploadRoute" /\ pc[p] = "done" /\ resp[p] = NoResp

\* unlink and rmdir in their own try/catch, then the response
UploadRouteRespond(p) ==
  /\ Pending(p)
  /\ \E left \in {"removed", "made"} :
       loc' = [loc EXCEPT ![p].tempDir = left]
  /\ resp' = [resp EXCEPT ![p] =
       IF res[p].success
       THEN [status |-> 200, success |-> TRUE,
             documentsIndexed |-> res[p].documentsIndexed,
             chunksCreated |-> res[p].chunksCreated]
       ELSE ErrorResponse("Failed to index document", 500)]
  /\ UNCHANGED <<rev, collections, messages, chunkRows, vectors, docs, nextId, calls, pc,
                 res, settled>>

(* ------------------------------- Next ---------------------------------- *)
Next ==
  \E p \in Procs :
    \/ StartIndex(p)
    \/ IndexLoad(p)
    \/ IndexFromDocuments(p)
    \/ IndexCreate(p)
    \/ StartDelete(p)
    \/ DeleteFind(p)
    \/ DeleteVectors(p)
    \/ DeleteRows(p)
    \/ StartRouteDelete(p)
    \/ RouteFind(p)
    \/ RouteDeleteRow(p)
    \/ StartRetrieve(p)
    \/ RetrieveQuery(p)
    \/ StartGenerate(p)
    \/ GenerateQuery(p)

Spec == Init /\ [][Next]_vars

NextPart023 ==
  \E p \in Procs :
    \/ StartIndex(p)
    \/ IndexLoad(p)
    \/ IndexFromDocuments(p)
    \/ IndexCreate(p)
    \/ StartDelete(p)
    \/ DeleteFind(p)
    \/ DeleteVectors(p)
    \/ StartRouteDelete(p)
    \/ RouteFind(p)
    \/ RouteDeleteRow(p)
    \/ StartGenerate(p)
    \/ GenerateRetrieve(p)
    \/ GenerateLLM(p)

SpecPart023 == InitPart023 /\ [][NextPart023]_vars

NextLegacy ==
  \E p \in Procs :
    \/ StartLegacyIndex(p)
    \/ LegacyProcess(p)
    \/ LegacyEmbed(p)
    \/ LegacyStore(p)
    \/ StartStoreVectors(p)
    \/ StartLegacyDelete(p)
    \/ LegacyScroll(p)
    \/ LegacyDeletePoints(p)
    \/ StartLegacyQuery(p)
    \/ LegacyQueryEmbed(p)
    \/ LegacySearch(p)
    \/ LegacyLLM(p)

SpecLegacy == InitLegacy /\ [][NextLegacy]_vars

(* ------------------- LLMGateway.streamChatCompletion -------------------- *)
\* the pieces a read of the event stream is made of: a data line with a
\* delta, a data line with no content in its delta, the [DONE] data line,
\* and the line break
Tokens == {"content", "empty", "[DONE]", "\n"}
ReadValues ==
  UNION {[1..n -> Tokens] : n \in 1..MaxTokens}

\* the callbacks a caller passes; throws is the set of those that throw
\* when they are invoked next
CallbackNames == {"onChunk", "onComplete", "onError"}

\* an invocation of a callback
OnChunk(c) == [c EXCEPT !.late = @ \/ c.completes + c.errors > 0]
OnComplete(c) == [c EXCEPT !.completes = @ + 1]
OnError(c) == [c EXCEPT !.errors = @ + 1]

\* buffer.split("\n"): the lines, the last of them the unfinished one
RECURSIVE SplitLines(_, _)
SplitLines(toks, cur) ==
  IF toks = <<>> THEN <<cur>>
  ELSE IF Head(toks) = "\n" THEN <<cur>> \o SplitLines(Tail(toks), <<>>)
  ELSE SplitLines(Tail(toks), Append(cur, Head(toks)))

\* the for loop over the complete lines: [DONE] calls onComplete and
\* returns, a delta with content calls onChunk inside the try of JSON.parse,
\* which also swallows what onChunk throws; any other line is skipped
RECURSIVE ForLines(_, _, _)
ForLines(lines, c, throws) ==
  IF lines = <<>> THEN [cb |-> c, outcome |-> "next"]
  ELSE IF Head(lines) = <<"[DONE]">>
       THEN [cb |-> OnComplete(c),
             outcome |-> IF "onComplete" \in throws THEN "throw" ELSE "return"]
  ELSE IF Head(lines) = <<"content">>
       THEN ForLines(Tail(lines), OnChunk(c), throws)
  ELSE ForLines(Tail(lines), c, throws)

StreamReturned == [NoRes EXCEPT !.returned = TRUE, !.msg = "streamed"]

\* the call has ended by onComplete() returning
StreamEnd(p, c) ==
  /\ loc' = [loc EXCEPT ![p].cb = c, ![p].buffer = <<>>]
  /\ res' = [res EXCEPT ![p] = StreamReturned]
  /\ pc' = [pc EXCEPT ![p] = "done"]

\* the catch block: onError(error), whose own exception leaves the call
StreamCatch(p, c, throws) ==
  /\ loc' = [loc EXCEPT ![p].cb = OnError(c), ![p].buffer = <<>>]
  /\ res' = [res EXCEPT ![p] =
               IF "onError" \in throws THEN Thrown("callback")
               ELSE StreamReturned]
  /\ pc' = [pc EXCEPT ![p] = "done"]

\* onComplete() at the end of the stream, inside the try
StreamComplete(p, c, throws) ==
  IF "onComplete" \in throws
  THEN StreamCatch(p, OnComplete(c), throws)
  ELSE StreamEnd(p, OnComplete(c))

InitStream ==
  /\ rev = "head"
  /\ collections = {collectionName}
  /\ vectors = {}
  /\ docs = {}
  /\ chunkRows = {}
  /\ messages = <<>>
  /\ nextId = 2
  /\ calls = 0
  /\ pc = [p \in Procs |-> "idle"]
  /\ loc = [p \in Procs |-> NoLoc]
  /\ res = [p \in Procs |-> NoRes]
  /\ resp = [p \in Procs |-> NoResp]
  /\ settled = {}

\* streamChatCompletion(request, onChunk, onComplete, onError) of the
\* gateway on fetch ("fetch") and of the gateway on the OpenAI SDK ("sdk")
StartStream(p) ==
  /\ CanStart(p)
  /\ \E i \in {"fetch", "sdk"} :
       /\ loc' = [loc EXCEPT ![p] =
                    [NoLoc EXCEPT !.op = "stream", !.impl = i]]
       /\ pc' = [pc EXCEPT ![p] = IF i = "fetch" THEN "s_request"
                                  ELSE "k_create"]
  /\ res' = [res EXCEPT ![p] = NoRes]
  /\ resp' = [resp EXCEPT ![p] = NoResp]
  /\ calls' = calls + 1
  /\ UNCHANGED <<rev, collections, messages, chunkRows, vectors, docs, nextId,
                 settled>>

\* makeRequest, the !response.ok test and response.body?.getReader()
StreamRequest(p) ==
  /\ pc[p] = "s_request"
  /\ \/ \E throws \in SUBSET CallbackNames :
          StreamCatch(p, loc[p].cb, throws)
     \/ /\ pc' = [pc EXCEPT ![p] = "s_read"]
        /\ UNCHANGED <<loc, res>>
  /\ UNCHANGED <<rev, collections, messages, chunkRows, vectors, docs, nextId,
                 calls, resp, settled>>

\* one turn of the while loop: reader.read() and the lines it completes
StreamRead(p) ==
  /\ pc[p] = "s_read"
  /\ \E throws \in SUBSET CallbackNames :
     \/ StreamCatch(p, loc[p].cb, throws)
     \/ StreamComplete(p, loc[p].cb, throws)
     \/ /\ loc[p].reads < MaxReads
        /\ \E value \in ReadValues :
             LET lines == SplitLines(loc[p].buffer \o value, <<>>)
                 r == ForLines(SubSeq(lines, 1, Len(lines) - 1), loc[p].cb,
                               throws)
             IN CASE r.outcome = "return" -> StreamEnd(p, r.cb)
                  [] r.outcome = "throw" -> StreamCatch(p, r.cb, throws)
                  [] OTHER ->
                       /\ loc' = [loc EXCEPT ![p].cb = r.cb,
                                             ![p].buffer = lines[Len(lines)],
                                             ![p].reads = @ + 1]
                       /\ UNCHANGED <<pc, res>>
  /\ UNCHANGED <<rev, collections, messages, chunkRows, vectors, docs, nextId,
                 calls, resp, settled>>

\* this.openai.chat.completions.create({..., stream: true})
SdkCreate(p) ==
  /\ pc[p] = "k_create"
  /\ \/ \E throws \in SUBSET CallbackNames :
          StreamCatch(p, loc[p].cb, throws)
     \/ /\ pc' = [pc EXCEPT ![p] = "k_next"]
        /\ UNCHANGED <<loc, res>>
  /\ UNCHANGED <<rev, collections, messages, chunkRows, vectors, docs, nextId,
                 calls, resp, settled>>

\* one turn of for await (const chunk of stream), and onComplete() after it
SdkNext(p) ==
  /\ pc[p] = "k_next"
  /\ \E throws \in SUBSET CallbackNames :
     \/ StreamCatch(p, loc[p].cb, throws)
     \/ StreamComplete(p, loc[p].cb, throws)
     \/ /\ loc[p].reads < MaxReads
        /\ \E delta \in {"content", "empty"} :
             IF delta = "empty"
             THEN /\ loc' = [loc EXCEPT ![p].reads = @ + 1]
                  /\ UNCHANGED <<pc, res>>
             ELSE IF "onChunk" \in throws
             THEN StreamCatch(p, OnChunk(loc[p].cb), throws)
             ELSE /\ loc' = [loc EXCEPT ![p].cb = OnChunk(@),
                                        ![p].reads = @ + 1]
                  /\ UNCHANGED <<pc, res>>
  /\ UNCHANGED <<rev, collections, messages, chunkRows, vectors, docs, nextId,
                 calls, resp, settled>>

NextLegacyDelete ==
  \E p \in Procs :
    \/ StartLegacyDelete(p)
    \/ LegacyScroll(p)
    \/ LegacyDeletePoints(p)

\* deletions alone, on collections with large files
SpecLegacyDelete == InitLegacyDelete /\ [][NextLegacyDelete]_vars

NextInitialize ==
  \E p \in Procs :
    \/ StartInitialize(p)
    \/ InitializeGet(p)
    \/ InitializeCreate(p)

\* the creation of vector stores by concurrent requests
SpecInitialize == InitInitialize /\ [][NextInitialize]_vars

NextUpload ==
  \E p \in Procs :
    \/ StartUpload(p)
    \/ UploadWrite(p)
    \/ UploadCreate(p)
    \/ BackgroundExtract(p)
    \/ BackgroundNoContent(p)
    \/ BackgroundChunks(p)
    \/ BackgroundReady(p)
    \/ BackgroundCatch(p)
    \/ StartUploadDelete(p)
    \/ UploadDeleteFind(p)
    \/ UploadDeleteRow(p)

SpecUpload == InitUpload /\ [][NextUpload]_vars

\* a step of processFileInBackground
Background(p) ==
  \/ BackgroundExtract(p)
  \/ BackgroundNoContent(p)
  \/ BackgroundChunks(p)
  \/ BackgroundReady(p)
  \/ BackgroundCatch(p)

\* the event loop runs every background task that has been started
SpecUploadLive ==
  InitUpload /\ [][NextUpload]_vars /\ \A p \in Procs : WF_vars(Background(p))

NextChat ==
  \E p \in Procs :
    \/ StartChat(p)
    \/ ChatAddUser(p)
    \/ ChatRag(p)
    \/ ChatFallback(p)
    \/ ChatSave(p)
    \/ StartThreadChat(p)
    \/ ThreadChatFind(p)
    \/ ThreadChatRag(p)

\* the chat routes on the deployed RAG manager
SpecChat == Init /\ [][NextChat]_vars

NextUploadRoute ==
  \E p \in Procs :
    \/ StartUploadRoute(p)
    \/ UploadRouteThread(p)
    \/ UploadRouteMkdir(p)
    \/ UploadRouteWrite(p)
    \/ IndexLoad(p)
    \/ IndexFromDocuments(p)
    \/ IndexCreate(p)
    \/ UploadRouteRespond(p)

\* the upload route on the deployed RAG manager
SpecUploadRoute == Init /\ [][NextUploadRoute]_vars

\* a step of a streamChatCompletion call that has been started
StreamStep(p) ==
  \/ StreamRequest(p)
  \/ StreamRead(p)
  \/ SdkCreate(p)
  \/ SdkNext(p)

NextStream ==
  \E p \in Procs :
    \/ StartStream(p)
    \/ StreamRequest(p)
    \/ StreamRead(p)
    \/ SdkCreate(p)
    \/ SdkNext(p)

\* the provider answers every request and ends every stream, and the event
\* loop resumes every call that waits for it
SpecStreamLive ==
  InitStream /\ [][NextStream]_vars /\ \A p \in Procs : WF_vars(StreamStep(p))

(* ------------------------------ properties ----------------------------- *)
TypeOK ==
  /\ rev \in Revisions
  /\ \A v \in vectors :
       v.threadId \in Threads \cup {NoKey} /\ v.fileName \in Files
  /\ \A d \in docs :
       d.threadId \in Threads \cup {NoKey} /\ d.filename \in Files
  /\ calls \in 0..MaxCalls
  /\ settled \subseteq Files \X Threads

\* the records one ingestion call wrote
WrittenVectors(p) == {v \in vectors : v.docId \in Range(loc[p].ids)}
WrittenRows(p) == {d \in docs : d.id \in Range(loc[p].ids)}

\* C1: every READY Document row has at least one vector record with the same
\* threadId and fileName, in every reachable state.
C1_ReadyHasVectors ==
  \A d \in docs :
    d.status = "READY" =>
      \E v \in vectors : v.threadId = d.threadId /\ v.fileName = d.filename

\* C2: an ingestion call creates no Document row before its vector write has
\* succeeded; when loading, embedding or the vector write fails it returns
\* success=false, documentsIndexed=0, chunksCreated=0 and has created no row.
C2_NoRowBeforeVectors ==
  \A p \in Procs :
    loc[p].op = "index" =>
      /\ (loc[p].k > 0 \/ WrittenRows(p) # {}) => loc[p].vecDone
      /\ (pc[p] = "done" /\
          loc[p].failedAt \in {"load", "empty", "mismatch", "vector"}) =>
            /\ res[p].returned /\ ~res[p].success
            /\ res[p].documentsIndexed = 0 /\ res[p].chunksCreated = 0
            /\ loc[p].k = 0 /\ WrittenRows(p) = {}

C2_Witness ==
  \E p \in Procs :
    /\ loc[p].op = "index" /\ pc[p] = "done"
    /\ loc[p].failedAt = "vector" /\ ~res[p].success

\* C3: whenever an ingestion call returns success=false, no vector record and
\* no Document row written by that call remains.
C3_AllOrNothing ==
  \A p \in Procs :
    (loc[p].op = "index" /\ pc[p] = "done" /\ res[p].returned /\ ~res[p].success)
      => WrittenVectors(p) = {} /\ WrittenRows(p) = {}

\* C4: the source nodes of retrieveContext and of generateResponse for a
\* question asked in thread A are all vector records of thread A; no record
\* ingested into another thread appears in the result.
C4_ThreadIsolation ==
  \A p \in Procs :
    loc[p].op \in {"retrieve", "generate"} =>
      res[p].nodes \subseteq IngestedInto(res[p].nodes, loc[p].threadId)

\* C5: whenever deleteDocumentsByFilename(f, T) returns success=true, no
\* vector record and no Document row of (f, T) exists afterwards.
C5_SuccessMeansGone ==
  [][\A p \in Procs :
       (loc[p].op = "delete" /\ ~res[p].returned /\ res'[p].returned /\
        res'[p].success) =>
         /\ VectorFilter(vectors', loc[p].fileName, loc[p].threadId) = {}
         /\ DocumentWhere(docs', loc[p].fileName, loc[p].threadId) = {}]_vars

\* C6: a step of deleteDocumentsByFilename for file f in thread T1 leaves
\* the vector records and Document rows of every other thread unchanged; once
\* the vector delete of the call has succeeded, a retrieval on T1 returns no
\* source from f as ingested into T1.
C6_OtherThreadsUntouched ==
  [][\A p \in Procs :
       (/\ loc[p].op \in {"delete", "routeDelete"}
        /\ pc[p] \in {"d_find", "d_vec", "d_db", "ld_scroll", "ld_delete"}
        /\ pc'[p] # pc[p]) =>
         /\ \A t \in Threads \ {loc[p].threadId} :
              /\ IngestedInto(vectors', t) = IngestedInto(vectors, t)
              /\ {d \in docs' : d.threadId = t} = {d \in docs : d.threadId = t}
         /\ (\/ pc[p] = "d_vec" /\ ~loc'[p].vecFailed
             \/ pc[p] \in {"ld_scroll", "ld_delete"} /\ res'[p].success) =>
              \A R \in Retrievable(vectors', loc[p].threadId) :
                loc[p].fileName \notin
                  Sources(R \cap IngestedInto(vectors', loc[p].threadId))]_vars

\* C7: when the vector-store delete failed, the result returned differs from
\* every result of a call that removed the vectors.
C7_VectorFailureReported ==
  \A p \in Procs :
    (loc[p].op = "delete" /\ res[p].returned /\ loc[p].vecFailed) =>
      \A c \in 0..Cardinality(docs) + 1 : res[p] # DeleteDone(c)

\* C8: when client.delete throws, the call still goes on to
\* prisma.document.deleteMany, and when that call succeeds the matching
\* Document rows are removed and the call returns success.
C8_MetadataStillDeleted ==
  [][\A p \in Procs :
       loc[p].op \in {"delete", "routeDelete"} =>
         /\ (pc[p] = "d_vec" /\ pc'[p] # pc[p] /\ loc'[p].vecFailed) =>
              pc'[p] = "d_db" /\ ~res'[p].returned
         /\ (pc[p] = "d_db" /\ pc'[p] # pc[p] /\ loc[p].vecFailed) =>
              /\ loc'[p].dbTried
              /\ loc'[p].failedAt # "deleteMany" =>
                   /\ DocumentWhere(docs', loc[p].fileName, loc[p].threadId) = {}
                   /\ res'[p].success
                   /\ res'[p].deletedCount =
                        Cardinality(DocumentWhere(docs, loc[p].fileName,
                                                  loc[p].threadId))
         /\ (loc[p].vecFailed /\ ~res[p].returned /\ res'[p].returned) =>
              loc'[p].dbTried]_vars

C8_Witness ==
  \E p \in Procs :
    /\ loc[p].op = "delete" /\ pc[p] = "done"
    /\ loc[p].vecFailed /\ loc[p].dbTried /\ loc[p].found >= 1
    /\ res[p].success /\ res[p].deletedCount >= 1
    /\ DocumentWhere(docs, loc[p].fileName, loc[p].threadId) = {}

\* C9: a deleteDocumentsByFilename call made after a call for the same
\* (filename, threadId) returned success, with no ingestion in between and no
\* store failure, returns success=true with deletedCount=0.
C9_SecondDeleteCountsZero ==
  \A p \in Procs :
    (loc[p].op = "delete" /\ res[p].returned /\ loc[p].after /\
     ~loc[p].injected) =>
       res[p].success /\ res[p].deletedCount = 0

\* C10: DELETE /api/documents/[id] on an existing document owned by the
\* caller, no store call failing, answers 200, and then neither the row nor a
\* vector record of its (filename, threadId) exists.
C10_RouteDeleteSucceeds ==
  \A p \in Procs :
    (loc[p].op = "routeDelete" /\ pc[p] = "done" /\ loc[p].owned /\
     ~loc[p].injected) =>
       /\ resp[p].status = 200
       /\ {d \in docs : d.id = loc[p].docId} = {}
       /\ VectorFilter(vectors, loc[p].fileName, loc[p].threadId) = {}

\* C11: a Document row that is READY or ERROR keeps its status in every step
\* that leaves the row in the table: the only status changes are PROCESSING
\* to READY and PROCESSING to ERROR.
C11_TerminalStatus ==
  [][\A d \in docs : \A e \in docs' :
       (e.id = d.id /\ d.status \in {"READY", "ERROR"}) =>
         e.status = d.status]_vars

\* C12: a provider response with an all-zero vector makes the ingestion call
\* fail and nothing of its batch is written, so no vector record of the
\* collection holds an all-zero embedding.
C12_ZeroRejected ==
  [][\A p \in Procs :
       (/\ pc[p] = "l_store" /\ pc'[p] = "done"
        /\ \E i \in 1..Len(loc[p].emb) : loc[p].emb[i].zero) =>
         /\ vectors' = vectors
         /\ \A v \in vectors' : ~v.embedding.zero
         /\ ~res'[p].success]_vars

\* C13: a storeVectors call whose batch holds a record with a missing or empty
\* embedding, or one of a length other than 1536, throws and leaves the
\* collection as it was.
C13_BatchRejected ==
  [][\A p \in Procs :
       (/\ pc[p] = "l_store" /\ pc'[p] = "done"
        /\ \E i \in 1..Len(loc[p].emb) :
             loc[p].emb[i].len < 0 \/ loc[p].emb[i].len # VectorSize) =>
         /\ vectors' = vectors
         /\ res'[p] = StoreFailed(loc[p].op)]_vars

C13_Witness ==
  \E p \in Procs :
    /\ loc[p].op = "store" /\ pc[p] = "done" /\ loc[p].n = MaxChunks
    /\ loc[p].failedAt = "invalid" /\ res[p].thrown

\* C14: an indexDocuments call in which one of several files produced no
\* chunk returns success=false and writes no vector record.
C14_WholeCallFails ==
  [][\A p \in Procs :
       (/\ loc[p].op = "index" /\ pc[p] = "l_store" /\ pc'[p] = "done"
        /\ \E i \in 1..Len(loc[p].ch) : loc[p].ch[i] = 0) =>
         /\ vectors' = vectors
         /\ ~res'[p].success]_vars

\* C15: input that yields zero chunks is never reported as a success or as a
\* READY document: an ingestion call that chunked or loaded nothing returns
\* success=false, and processFileInBackground does not set READY when
\* splitIntoChunks returned no chunk.
C15_ZeroChunksFail ==
  \A p \in Procs :
    /\ (loc[p].op = "index" /\ pc[p] = "done" /\ loc[p].failedAt = "empty")
         => res[p].returned /\ ~res[p].success
    /\ (loc[p].op = "upload" /\ loc[p].vecDone /\ loc[p].n = 0) =>
         \A d \in docs : d.id = loc[p].docId => d.status # "READY"

\* C16: a step of an indexDocumentsFromDirectory call removes or overwrites
\* no record of anyone else and adds only records under its own ids; a call
\* in which no store call failed returns success, whatever another index
\* call on the same thread did in between, and the stores then hold exactly
\* the READY rows and vector records that call produces when run alone.
C16_ConcurrentIndexSafe ==
  [][\A p \in Procs :
       (pc[p] \in {"i_load", "i_vec", "i_create"} /\
        (pc'[p] # pc[p] \/ loc'[p] # loc[p])) =>
         LET ids == Range(loc'[p].ids)
             m == Len(loc[p].files) IN
         /\ vectors \subseteq vectors' /\ docs \subseteq docs'
         /\ \A v \in vectors' \ vectors : v.docId \in ids
         /\ \A d \in docs' \ docs : d.id \in ids
         /\ (/\ pc'[p] = "done" /\ loc'[p].failedAt = "none"
             /\ \A q \in Procs : loc[q].op \in {"index", "none"}) =>
              /\ res'[p] = IndexSuccess(m, loc[p].n)
              /\ {d \in docs' : d.id \in ids} =
                   {NewDocument(loc[p].ids[i], loc[p].threadId,
                                loc[p].files[i]) : i \in 1..m}
              /\ \A v \in vectors' :
                   v.docId \in ids =>
                     \E i \in 1..loc[p].n :
                       /\ v.docId = loc[p].ids[i]
                       /\ v.threadId = loc[p].threadId
                       /\ v.fileName = loc[p].files[i]
              /\ \A i \in 1..loc[p].n :
                   \E v \in vectors' : v.docId = loc[p].ids[i]]_vars

C16_Witness ==
  \E p, q \in Procs :
    /\ p # q /\ rev = "head"
    /\ loc[p].op = "index" /\ loc[q].op = "index"
    /\ loc[p].threadId = loc[q].threadId
    /\ Range(loc[p].files) \cap Range(loc[q].files) = {}
    /\ pc[p] = "done" /\ pc[q] = "done"
    /\ res[p].success /\ res[q].success
    /\ loc[p].ids[1] < loc[q].ids[1]
    /\ \E d, e \in docs : d.id = loc[p].ids[1] /\ e.id = loc[q].ids[1]

\* C17: what generateResponse hands its caller when the language-model call
\* failed differs, in its kind or tag and not only in its message text, from
\* what it hands over when retrieval failed and from a successful answer
\* with no sources.
C17_LLMFailureTagged ==
  \A p, q \in Procs :
    (/\ loc[p].op = "generate" /\ pc[p] = "done" /\ loc[p].failedAt = "llm"
     /\ loc[q].op = "generate" /\ pc[q] = "done") =>
      /\ loc[q].failedAt = "retrieval" => res[p] # res[q]
      /\ (res[q].success /\ res[q].nodes = {}) => res[p] # res[q]

\* C18: in POST /api/chat, once generateResponse has thrown, the handler goes
\* on to the fallback call, which is asked the user's message alone; a
\* success response then carries the content of the fallback call and never
\* a RAG answer, and an error response is returned only when the fallback
\* call failed as well.
C18_FallbackAfterThrow ==
  \A p \in Procs :
    (loc[p].op = "chat" /\ loc[p].ragThrew) =>
      /\ pc[p] \in {"c_fallback", "c_save", "done"}
      /\ ~loc[p].grounded
      /\ pc[p] \in {"c_save", "done"} =>
           loc[p].asked = <<[role |-> "user", content |-> loc[p].message]>>
      /\ pc[p] = "c_save" => loc[p].final \in LLMContents
      /\ (pc[p] = "done" /\ resp[p].success) =>
           resp[p].content = loc[p].final /\ resp[p].content \in LLMContents
      /\ (pc[p] = "done" /\ ~resp[p].success) =>
           loc[p].failedAt = "fallback" /\ resp[p].status = 500

C18_Witness ==
  \E p \in Procs :
    /\ loc[p].op = "chat" /\ loc[p].ragThrew /\ pc[p] = "done"
    /\ resp[p].success /\ resp[p].content = "answer"
    /\ loc[p].asked # <<>>

\* C19: when answer generation failed, the error text of the HTTP response is
\* one of the generic texts the routes write themselves, never the message
\* of the provider's error; in POST /api/chat/[threadId] and in POST
\* /api/chat, fallback included.
C19_GenericErrorText ==
  \A p \in Procs :
    (/\ loc[p].op \in {"chat", "threadChat"} /\ pc[p] = "done"
     /\ ~resp[p].success
     /\ loc[p].ragThrew \/ loc[p].failedAt \in {"fallback", "noResponse"}) =>
      /\ resp[p].error \in GenericTexts
      /\ resp[p].error \notin ProviderErrors

\* C20: a finished call of indexDocumentsFromDirectory, retrieveContext,
\* generateResponse or deleteDocumentsByFilename has returned a value; no
\* exception has reached its caller, whichever external call failed.
C20_NothingThrown ==
  \A p \in Procs :
    (/\ loc[p].op \in {"index", "retrieve", "generate", "delete"}
     /\ pc[p] = "done") =>
      res[p].returned /\ ~res[p].thrown

\* C21: a request to POST /api/documents/upload whose file is empty, of a
\* type outside the allowed list or larger than 10 MB never gets as far as
\* the temporary directory or indexDocumentsFromDirectory, and, when the
\* thread is the caller's and no store call failed, is answered with 400.
C21_InvalidFileRejected ==
  \A p \in Procs :
    (/\ loc[p].op = "uploadRoute"
     /\ \/ loc[p].size = 0
        \/ loc[p].size > 10 * 1024 * 1024
        \/ loc[p].mime = "image/png") =>
      /\ loc[p].tempDir = "none"
      /\ pc[p] \notin {"ur_mkdir", "ur_write", "i_load", "i_vec", "i_create"}
      /\ loc[p].ids = <<>>
      /\ (/\ pc[p] = "done" /\ ~loc[p].injected
          /\ loc[p].threadId \in Threads
          /\ ThreadOwner[loc[p].threadId] = loc[p].user) =>
           resp[p].status = 400

\* C22: a deleteDocumentsByFilename(f) of the vector store that succeeds
\* leaves no point whose filename is f, however many there were, and returns
\* the number of points it removed; when the scroll finds nothing it returns
\* 0 and the collection is as it was.
C22_DeletesAllMatching ==
  [][\A p \in Procs :
       (/\ pc[p] \in {"ld_scroll", "ld_delete"} /\ pc'[p] = "done"
        /\ res'[p].success) =>
         /\ \A v \in vectors' : v.filename # loc[p].fileName
         /\ res'[p].deletedCount = Cardinality(vectors \ vectors')
         /\ pc[p] = "ld_scroll" =>
              vectors' = vectors /\ res'[p].deletedCount = 0]_vars

\* C23: when an indexing call returns success, documentsIndexed is the number
\* of Document rows the call created and chunksCreated is the number of
\* vector records it wrote (no deletion running beside it).
C23_CountsWritten ==
  [][\A p \in Procs :
       (/\ pc[p] = "i_create" /\ pc'[p] = "done" /\ res'[p].success
        /\ \A q \in Procs : loc[q].op \in {"index", "none"}) =>
         /\ res'[p].documentsIndexed =
              Cardinality({d \in docs' : d.id \in Range(loc[p].ids)})
         /\ res'[p].chunksCreated =
              Cardinality({v \in vectors' : v.docId \in Range(loc[p].ids)})]_vars

\* C24: generateBatchEmbeddings either throws, and indexDocuments fails, or
\* returns one result per text with results[i].text = texts[i]; no stored
\* point carries the embedding of another chunk.
C24_BatchInOrder ==
  [][\A p \in Procs :
       (pc[p] = "l_embed" /\ pc'[p] # "l_embed") =>
         LET texts == AllChunks(loc[p].files, loc[p].ch) IN
         /\ \/ /\ pc'[p] = "done" /\ ~res'[p].success
               /\ loc'[p].failedAt \in {"embed", "rejected"}
            \/ /\ pc'[p] = "l_store"
               /\ Len(loc'[p].emb) = Len(texts)
               /\ \A i \in 1..Len(texts) : loc'[p].emb[i].text = texts[i]
         /\ \A v \in vectors' :
              v.embedding.text = [fileName |-> v.fileName, chunk |-> v.chunk]]_vars

C24_Witness ==
  \E p \in Procs :
    /\ loc[p].op = "index" /\ pc[p] = "l_store"
    /\ Len(loc[p].files) = MaxFiles /\ Len(loc[p].emb) > MaxFiles
    /\ loc[p].emb[2].text # loc[p].emb[1].text

\* C25: an initialize() that finds its collection calls no createCollection
\* and returns; and every initialize() in which no call to the server failed
\* for a reason of its own returns without error, also when another request
\* initializes at the same time, the collection being created once.
C25_InitializeIdempotent ==
  \A p \in Procs :
    loc[p].op = "initialize" =>
      /\ (pc[p] = "done" /\ ~loc[p].injected) =>
           /\ res[p].returned /\ ~res[p].thrown
           /\ loc[p].key \in collections
      /\ \A q \in Procs :
           (/\ q # p /\ loc[q].op = "initialize" /\ loc[q].key = loc[p].key
            /\ loc[p].vecDone) => ~loc[q].vecDone

\* C26: no step of a DELETE /api/documents/[id] request for document D
\* removes a Document row other than D or a vector record that belongs to
\* another row, a row of a repeated upload of the same filename included.
C26_RouteDeleteOnlyTarget ==
  [][\A p \in Procs :
       (loc[p].op = "routeDelete" /\ pc'[p] # pc[p]) =>
         /\ \A d \in docs : d.id # loc[p].docId => d \in docs'
         /\ \A v \in vectors : v.docId # loc[p].docId => v \in vectors']_vars

\* C27: a chat request reaches ragManager.generateResponse(message, T) only
\* when the authenticated user is the owner of thread T, in POST /api/chat
\* and in POST /api/chat/[threadId].
C27_OwnerOnlyGrounded ==
  \A p \in Procs :
    (/\ loc[p].op \in {"chat", "threadChat"}
     /\ pc[p] \in {"c_rag", "tc_rag"} \/ res[p] # NoRes) =>
      /\ loc[p].threadId \in Threads
      /\ ThreadOwner[loc[p].threadId] = loc[p].user

\* C28: once processFileInBackground has been started for a Document, the
\* task comes to an end with the row READY or ERROR (or deleted); the row is
\* not left PROCESSING, whichever store call failed on the way.
C28_LeavesProcessing ==
  \A p \in Procs :
    (pc[p] = "b_extract") ~>
      (/\ pc[p] = "done"
       /\ \A d \in docs : d.id = loc[p].docId => d.status # "PROCESSING")

\* C29: every call of streamChatCompletion invokes exactly one of onComplete
\* and onError, once, and no onChunk after it: never more than one such
\* invocation during the call, and a started call ends with exactly one.
C29_OneFinalCallback ==
  /\ [](\A p \in Procs :
          loc[p].op = "stream" =>
            /\ loc[p].cb.completes + loc[p].cb.errors <= 1
            /\ ~loc[p].cb.late)
  /\ \A p \in Procs :
       (pc[p] \in {"s_request", "k_create"}) ~>
         (/\ pc[p] = "done" /\ loc[p].op = "stream"
          /\ loc[p].cb.completes + loc[p].cb.errors = 1)

\* C30: the step by which POST /api/chat returns success appends exactly
\* one ASSISTANT message to the thread, after the USER message of the
\* request, and its stored content is the content of the response; a step
\* by which the request returns an error appends no ASSISTANT message.
C30_StoredIsReturned ==
  [][\A p \in Procs :
       (loc[p].op = "chat" /\ pc[p] # "done" /\ pc'[p] = "done") =>
         IF resp'[p].success
         THEN /\ Len(messages') = Len(messages) + 1
              /\ messages'[Len(messages')] =
                   [threadId |-> loc[p].threadId,
                    content |-> resp'[p].content, role |-> "ASSISTANT"]
              /\ \E i \in 1..Len(messages) :
                   messages[i] =
                     [threadId |-> loc[p].threadId,
                      content |-> Trim(loc[p].message), role |-> "USER"]
         ELSE \A i \in (Len(messages) + 1)..Len(messages') :
                messages'[i].role # "ASSISTANT"]_vars
====
